---- MODULE Spec2Model ----
(***************************************************************************)
(* A model of the MCP ODBC server (src/src/main.ts): the tool handlers,    *)
(* the driver capability probe, the result formatters and the connection   *)
(* lifecycle of every handler, as a state machine over interleaved tool    *)
(* invocations.                                                            *)
(***************************************************************************)
EXTENDS Integers, Sequences, FiniteSets, TLC

(***************************************************************************)
(* JavaScript values.  Every value is a record tagged by its type, so that *)
(* values of different types can be compared.                              *)
(***************************************************************************)
Str(s) == [t |-> "string", s |-> s]
Num(k) == [t |-> "number", n |-> k]
BigInt(k) == [t |-> "bigint", n |-> k]
Bool(b) == [t |-> "boolean", b |-> b]
Null == [t |-> "null"]
Undefined == [t |-> "undefined"]
Arr(items) == [t |-> "array", items |-> items]
\* An object: its own enumerable properties, in insertion order.
Obj(props) == [t |-> "object", props |-> props]
Prop(k, v) == [k |-> k, v |-> v]

\* ToBoolean: what `if (v)`, `v || d` and `a && b` test.
Truthy(v) ==
    CASE v.t = "string" -> v.s # ""
      [] v.t = "number" -> v.n # 0
      [] v.t = "bigint" -> v.n # 0
      [] v.t = "boolean" -> v.b
      [] v.t = "null" -> FALSE
      [] v.t = "undefined" -> FALSE
      [] OTHER -> TRUE

\* `key in row`
HasKey(row, key) == \E j \in 1..Len(row.props) : row.props[j].k = key

\* `row[key]`: undefined when the property is absent.
Get(row, key) ==
    IF HasKey(row, key)
    THEN row.props[CHOOSE j \in 1..Len(row.props) : row.props[j].k = key].v
    ELSE Undefined

\* Object.keys(row)
Keys(row) == [j \in 1..Len(row.props) |-> row.props[j].k]

RECURSIVE Join(_, _)
\* Array.prototype.join on an array of strings
Join(parts, sep) ==
    IF Len(parts) = 0 THEN ""
    ELSE IF Len(parts) = 1 THEN parts[1]
    ELSE parts[1] \o sep \o Join(Tail(parts), sep)

RECURSIVE Spaces(_)
Spaces(k) == IF k <= 0 THEN "" ELSE " " \o Spaces(k - 1)

\* Number::toString for the integers of the model
NumStr(k) == ToString(k)

\* A faulty Escape: no character is escaped.
EscapeNothing(s) == s

RECURSIVE Escape(_)
\* JSON QuoteJSONString: the characters it escapes, among those of the model
Escape(s) ==
    IF Len(s) = 0 THEN ""
    ELSE LET c == SubSeq(s, 1, 1)
             e == CASE c = "\"" -> "\\\""
                    [] c = "\\" -> "\\\\"
                    [] c = "\n" -> "\\n"
                    [] c = "\t" -> "\\t"
                    [] c = "\r" -> "\\r"
                    [] OTHER -> c
         IN e \o Escape(SubSeq(s, 2, Len(s)))

Quote(s) == "\"" \o Escape(s) \o "\""

RECURSIVE Serializable(_)
\* JSON.stringify raises a TypeError on a BigInt anywhere in the value.
Serializable(v) ==
    CASE v.t = "bigint" -> FALSE
      [] v.t = "array" -> \A j \in 1..Len(v.items) : Serializable(v.items[j])
      [] v.t = "object" -> \A j \in 1..Len(v.props) : Serializable(v.props[j].v)
      [] OTHER -> TRUE

\* The subsequence of the properties JSON.stringify writes: undefined ones are omitted.
Written(props) == SelectSeq(props, LAMBDA p : p.v.t # "undefined")

RECURSIVE Stringify(_, _, _)
\* JSON.stringify(v, null, gap) at indentation ind, for a serializable v that
\* is not undefined; gap = 0 is JSON.stringify(v).
Stringify(v, gap, ind) ==
    LET inner == ind + gap
        open(b) == IF gap = 0 THEN b ELSE b \o "\n" \o Spaces(inner)
        sep == IF gap = 0 THEN "," ELSE ",\n" \o Spaces(inner)
        close(b) == IF gap = 0 THEN b ELSE "\n" \o Spaces(ind) \o b
    IN
    CASE v.t = "string" -> Quote(v.s)
      [] v.t = "number" -> NumStr(v.n)
      [] v.t = "boolean" -> IF v.b THEN "true" ELSE "false"
      [] v.t = "null" -> "null"
      [] v.t = "array" ->
            IF Len(v.items) = 0 THEN "[]"
            ELSE LET parts == [j \in 1..Len(v.items) |->
                                 IF v.items[j].t = "undefined" THEN "null"
                                 ELSE Stringify(v.items[j], gap, inner)]
                 IN open("[") \o Join(parts, sep) \o close("]")
      [] v.t = "object" ->
            LET ps == Written(v.props)
                parts == [j \in 1..Len(ps) |->
                            Quote(ps[j].k) \o (IF gap = 0 THEN ":" ELSE ": ")
                                \o Stringify(ps[j].v, gap, inner)]
            IN IF Len(ps) = 0 THEN "{}"
               ELSE open("{") \o Join(parts, sep) \o close("}")

\* String(v)
ToStr(v) ==
    CASE v.t = "string" -> v.s
      [] v.t = "number" -> NumStr(v.n)
      [] v.t = "bigint" -> NumStr(v.n)
      [] v.t = "boolean" -> IF v.b THEN "true" ELSE "false"
      [] v.t = "null" -> "null"
      [] v.t = "undefined" -> "undefined"
      [] v.t = "array" -> "[array]"
      [] OTHER -> "[object Object]"

\* A faulty dataToMD: no early return on an empty array, the columns taken
\* from the first record when there is one.
dataToMDNoSentinel(data) ==
    LET columns == IF Len(data) = 0 THEN <<>> ELSE Keys(data[1])
        cell(row, col) == LET v == Get(row, col)
                          IN ToStr(IF Truthy(v) THEN v ELSE Str(""))
        line(cells) == "| " \o Join(cells, " | ") \o " |\n"
        rows == [i \in 1..Len(data) |->
                   line([c \in 1..Len(columns) |-> cell(data[i], columns[c])])]
    IN line(columns)
         \o line([c \in 1..Len(columns) |-> "---"])
         \o Join(rows, "")

\* A faulty dataToMD: only null and undefined render as an empty cell.
dataToMDNullCheck(data) ==
    IF Len(data) = 0 THEN "No results found."
    ELSE LET columns == Keys(data[1])
             cell(row, col) == LET v == Get(row, col)
                               IN ToStr(IF v.t \in {"null", "undefined"} THEN Str("") ELSE v)
             line(cells) == "| " \o Join(cells, " | ") \o " |\n"
             rows == [i \in 1..Len(data) |->
                        line([c \in 1..Len(columns) |-> cell(data[i], columns[c])])]
         IN line(columns)
              \o line([c \in 1..Len(columns) |-> "---"])
              \o Join(rows, "")

\* A faulty dataToMD: every row is rendered by its own keys.
dataToMDOwnKeys(data) ==
    IF Len(data) = 0 THEN "No results found."
    ELSE LET columns == Keys(data[1])
             cell(row, col) == LET v == Get(row, col)
                               IN ToStr(IF Truthy(v) THEN v ELSE Str(""))
             line(cells) == "| " \o Join(cells, " | ") \o " |\n"
             rows == [i \in 1..Len(data) |->
                        line([c \in 1..Len(Keys(data[i])) |-> cell(data[i], Keys(data[i])[c])])]
         IN line(columns)
              \o line([c \in 1..Len(columns) |-> "---"])
              \o Join(rows, "")

\* function dataToMD(data)
dataToMD(data) ==
    IF Len(data) = 0 THEN "No results found."
    ELSE LET columns == Keys(data[1])
             cell(row, col) == LET v == Get(row, col)
                               IN ToStr(IF Truthy(v) THEN v ELSE Str(""))
             line(cells) == "| " \o Join(cells, " | ") \o " |\n"
             rows == [i \in 1..Len(data) |->
                        line([c \in 1..Len(columns) |-> cell(data[i], columns[c])])]
         IN line(columns)
              \o line([c \in 1..Len(columns) |-> "---"])
              \o Join(rows, "")

(***************************************************************************)
(* Configuration resolved at startup (main.ts lines 27-40).  An            *)
(* environment and the parsed .env file are functions from variable names  *)
(* to strings; <<>> is the empty one.                                      *)
(***************************************************************************)
VARIABLES
    process_env,     \* process.env
    dotenv_file,     \* what the .env file beside the program holds now (<<>> when absent)
    myEnv,           \* const myEnv = loadEnv(...), evaluated when the module loads
    registeredTools  \* server: the shape registered under each tool name

\* A faulty loadEnv: the file overrides the environment.
loadEnvFileWins(envConfig, env) == envConfig @@ env

\* loadEnv: { ...envConfig, ...process.env }
loadEnv(envConfig, env) == env @@ envConfig

\* myEnv.KEY ?? fallback
OrElse(key, fallback) == IF key \in DOMAIN myEnv THEN myEnv[key] ELSE fallback

ODBC_DSN == OrElse("ODBC_DSN", "Local Virtuoso")
ODBC_USER == OrElse("ODBC_USER", "demo")
ODBC_PASSWORD == OrElse("ODBC_PASSWORD", "demo")
API_KEY == OrElse("API_KEY", "none")

\* A default parameter `x = d`: d replaces an undefined argument only.
Default(v, d) == IF v.t = "undefined" THEN d ELSE v

\* The argument record of an invocation holds the fields the client sent;
\* reading another field gives undefined.
Arg(a, name) == IF name \in DOMAIN a THEN a[name] ELSE Undefined

\* `DSN=${dsn};UID=${user};PWD=${password}` after the parameter defaults
ConnectionString(a) ==
    "DSN=" \o Default(Arg(a, "dsn"), Str(ODBC_DSN)).s
      \o ";UID=" \o Default(Arg(a, "user"), Str(ODBC_USER)).s
      \o ";PWD=" \o Default(Arg(a, "password"), Str(ODBC_PASSWORD)).s

(***************************************************************************)
(* Completion of a synchronous piece of code: a value, or a raised error.  *)
(***************************************************************************)
Normal(v) == [throw |-> FALSE, value |-> v]
Throw(e) == [throw |-> TRUE, error |-> e]

\* The error objects.  JSON.stringify writes only own enumerable properties:
\* a TypeError has none, a node-odbc error has odbcErrors.
TypeError(msg) == [t |-> "object", name |-> "TypeError", message |-> msg, props |-> <<>>]
OdbcError(msg, state) ==
    [t |-> "object", name |-> "Error", message |-> msg,
     props |-> <<Prop("odbcErrors",
                      Arr(<<Obj(<<Prop("state", Str(state)),
                                  Prop("code", Num(0)),
                                  Prop("message", Str(msg))>>)>>))>>]

(***************************************************************************)
(* The response envelopes.                                                 *)
(***************************************************************************)
\* return { content: [{ type: "text", text: tool_result }] }
SuccessEnvelope(text) == [content |-> <<[type |-> "text", text |-> text]>>]

\* A faulty ErrorEnvelope: the catch clause forgets isError: true.
ErrorEnvelopeUnflagged(error) ==
    [content |-> <<[type |-> "text", text |-> Str("Error: " \o Stringify(error, 2, 0))]>>]

\* return { content: [{ type: "text", text: `Error: ${JSON.stringify(error, null, 2)}` }], isError: true }
ErrorEnvelope(error) ==
    [content |-> <<[type |-> "text", text |-> Str("Error: " \o Stringify(error, 2, 0))]>>,
     isError |-> TRUE]

IsError(env) == "isError" \in DOMAIN env /\ env.isError

(***************************************************************************)
(* The driver capability probe.                                            *)
(***************************************************************************)
\* A driver call settles with rows or raises.
Rows(rows) == [raise |-> FALSE, rows |-> rows]
Raise(e) == [raise |-> TRUE, error |-> e]

\* A driver call as the driver sees it: the operation, the connection it is
\* issued on (undefined for odbc.connect) and the arguments.
Call(op, connection, args) == [op |-> op, on |-> connection, args |-> args]

\* connection.tables('%', "", "", null) of supportsCatalogs
ProbeCall(connection) == Call("tables", connection, <<Str("%"), Str(""), Str(""), Null>>)

\* A faulty supportsCatalogs: any returned row counts, whatever its qualifier.
supportsCatalogsAnyRow(r) == IF r.raise THEN FALSE ELSE Len(r.rows) # 0

\* supportsCatalogs, from the settlement r of its tables call
supportsCatalogs(r) ==
    IF r.raise THEN FALSE
    ELSE IF Len(r.rows) # 0 /\ Truthy(Get(r.rows[1], "TABLE_QUALIFIER")) THEN TRUE
    ELSE FALSE

\* A faulty FormatRows: a format that is none of json, jsonl and md is refused.
FormatRowsRefusesUnknown(data, format) ==
    IF format = "jsonl"
    THEN IF \A j \in 1..Len(data) : Serializable(data[j])
         THEN Normal(Str(Join([j \in 1..Len(data) |-> Stringify(data[j], 0, 0)], "\n")))
         ELSE Throw(TypeError("Do not know how to serialize a BigInt"))
    ELSE IF format = "md"
    THEN Normal(Str(dataToMD(data)))
    ELSE IF format # "json"
    THEN Throw(TypeError("Unknown format"))
    ELSE IF Serializable(Arr(data))
         THEN Normal(Str(Stringify(Arr(data), 2, 0)))
         ELSE Throw(TypeError("Do not know how to serialize a BigInt"))

(***************************************************************************)
(* The bodies of the tool handlers, from the rows of the main call to the  *)
(* completion of the try block.                                            *)
(***************************************************************************)
\* The three-way format switch every locally formatting tool repeats.
FormatRows(data, format) ==
    IF format = "jsonl"
    THEN IF \A j \in 1..Len(data) : Serializable(data[j])
         THEN Normal(Str(Join([j \in 1..Len(data) |-> Stringify(data[j], 0, 0)], "\n")))
         ELSE Throw(TypeError("Do not know how to serialize a BigInt"))
    ELSE IF format = "md"
    THEN Normal(Str(dataToMD(data)))
    ELSE IF Serializable(Arr(data))
         THEN Normal(Str(Stringify(Arr(data), 2, 0)))
         ELSE Throw(TypeError("Do not know how to serialize a BigInt"))

\* A faulty Distinct: the values are not passed through a Set.
DistinctKeepsAll(values) == values

RECURSIVE Distinct(_)
\* [...new Set(values)]: the first occurrence of each value, in order
Distinct(values) ==
    IF Len(values) = 0 THEN <<>>
    ELSE LET init == Distinct(SubSeq(values, 1, Len(values) - 1))
             x == values[Len(values)]
         IN IF \E j \in 1..Len(init) : init[j] = x THEN init ELSE Append(init, x)

\* The column get_schemas reads (main.ts lines 136-143)
CatName(result, has_catalogs) ==
    IF Len(result) # 0
    THEN IF has_catalogs
         THEN IF HasKey(result[1], "TABLE_CAT") THEN "TABLE_CAT" ELSE "TABLE_QUALIFIER"
         ELSE IF HasKey(result[1], "TABLE_SCHEM") THEN "TABLE_SCHEM" ELSE "TABLE_OWNER"
    ELSE "TABLE_CAT"

\* const catalogs = [...new Set(result.map(item => item[cat_name]))].map(name => ({ CATALOG_NAME: name }))
Catalogs(result, has_catalogs) ==
    LET cat_name == CatName(result, has_catalogs)
        names == Distinct([j \in 1..Len(result) |-> Get(result[j], cat_name)])
    IN [j \in 1..Len(names) |-> Obj(<<Prop("CATALOG_NAME", names[j])>>)]

get_schemas_body(result, has_catalogs, format) ==
    FormatRows(Catalogs(result, has_catalogs), format)

RECURSIVE LowerCase(_)
\* String.prototype.toLowerCase, over the capitals of the table names of the model
LowerCase(s) ==
    IF Len(s) = 0 THEN ""
    ELSE LET c == SubSeq(s, 1, 1)
             l == CASE c = "C" -> "c" [] c = "O" -> "o" [] c = "P" -> "p" [] OTHER -> c
         IN l \o LowerCase(SubSeq(s, 2, Len(s)))

\* A faulty Includes: the comparison ignores case.
IncludesAnyCase(s, q) ==
    \E j \in 1..(Len(s) - Len(q) + 1) :
        LowerCase(SubSeq(s, j, j + Len(q) - 1)) = LowerCase(q)

\* String.prototype.includes
Includes(s, q) == \E j \in 1..(Len(s) - Len(q) + 1) : SubSeq(s, j, j + Len(q) - 1) = q

\* A faulty filter_table_names_body: a row without a name is skipped.
filter_table_names_bodySkipsUnnamed(data, q, format) ==
    FormatRows(SelectSeq(data, LAMBDA row : /\ Get(row, "TABLE_NAME").t = "string"
                                            /\ Includes(Get(row, "TABLE_NAME").s, q)),
               format)

\* for (const row of data) if (row.TABLE_NAME.includes(q)) tablesInfo.push(row)
filter_table_names_body(data, q, format) ==
    IF \E j \in 1..Len(data) : Get(data[j], "TABLE_NAME").t # "string"
    THEN Throw(TypeError("Cannot read properties of null (reading 'includes')"))
    ELSE FormatRows(SelectSeq(data, LAMBDA row : Includes(Get(row, "TABLE_NAME").s, q)), format)

\* A faulty result_field_body: the rows go through the json formatter.
result_field_bodyFormatted(data) == FormatRows(data, "json")

\* A faulty result_field_body: the first row is read with data[0]?.result.
result_field_bodyOptionalRow(data) ==
    IF Len(data) = 0 THEN Normal(Undefined) ELSE Normal(Get(data[1], "result"))

\* return { ... text: (data[0] as ResultRow).result }
result_field_body(data) ==
    IF Len(data) = 0
    THEN Throw(TypeError("Cannot read properties of undefined (reading 'result')"))
    ELSE Normal(Get(data[1], "result"))

(***************************************************************************)
(* The tools and the driver call each handler issues.                      *)
(***************************************************************************)
ProbeTools == {"get_schemas", "get_tables", "filter_table_names", "describe_table"}
QueryTools == {"virt_get_schemas", "query_database", "query_database_md",
               "query_database_jsonl", "sparql_get_entity_types",
               "sparql_get_entity_types_detailed", "sparql_get_entity_types_samples",
               "sparql_get_ontologies"}
ResultFieldTools == {"spasql_query", "virtuoso_support_ai", "chat_prompt_complete"}
Tools == ProbeTools \cup QueryTools \cup ResultFieldTools

\* The parameter defaults of spasql_query and chat_prompt_complete
DefaultMaxRows == 20
DefaultTimeout == 30000
DefaultTemperature == [t |-> "number", n |-> 2, d |-> 10]
DefaultTopP == [t |-> "number", n |-> 5, d |-> 10]

\* A faulty Required: the field is declared .optional().
RequiredDeclaredOptional(name, type) == [name |-> name, type |-> type, required |-> FALSE]

\* The fields of a tool's declared shape: `name: z.string()` and
\* `name: z.string().optional()` (z.number() likewise)
Required(name, type) == [name |-> name, type |-> type, required |-> TRUE]
Optional(name, type) == [name |-> name, type |-> type, required |-> FALSE]

\* The shape each registration declares
Shape(tool) ==
    LET login == {Optional("user", "string"), Optional("password", "string"),
                  Optional("dsn", "string")}
        format == {Optional("format", "string")}
    IN  CASE tool = "get_tables" -> login \cup format \cup {Optional("schema", "string")}
          [] tool = "filter_table_names" ->
                login \cup format \cup {Required("q", "string"), Optional("schema", "string")}
          [] tool = "describe_table" ->
                login \cup format \cup {Required("schema", "string"), Required("table", "string")}
          [] tool = "query_database" -> login \cup format \cup {Required("query", "string")}
          [] tool \in {"query_database_md", "query_database_jsonl"} ->
                login \cup {Required("query", "string")}
          [] tool = "spasql_query" ->
                login \cup format \cup {Required("query", "string"), Optional("max_rows", "number"),
                                         Optional("timeout", "number")}
          [] tool = "virtuoso_support_ai" ->
                login \cup {Required("prompt", "string"), Optional("api_key", "string")}
          [] tool = "chat_prompt_complete" ->
                login \cup {Required("model", "string"), Required("prompt", "string"),
                            Optional("assistant_config_id", "string"),
                            Optional("function_names", "string"),
                            Optional("temperature", "number"), Optional("top_p", "number"),
                            Optional("max_tokens", "number"), Optional("api_key", "string")}
          [] OTHER -> login \cup format

\* The registry's validation of an argument record against a shape: every
\* required field is there and every declared field that is there has its type
Conforms(shape, a) ==
    \A f \in shape :
        /\ f.required => f.name \in DOMAIN a
        /\ f.name \in DOMAIN a => a[f.name].t = f.type

\* The registry hands a request to a handler when the tool is registered and
\* the arguments conform to its shape
Accepts(tool, a) == tool \in DOMAIN registeredTools /\ Conforms(registeredTools[tool], a)

\* What the caller gets otherwise: the request fails with an invalid-params
\* protocol error
ProtocolFailure == Throw([t |-> "object", name |-> "McpError", message |-> "InvalidParams", props |-> <<>>])

\* The fixed statements (the SPARQL texts by their first line)
VirtSchemasSQL == "SELECT DISTINCT name_part(KEY_TABLE,0) AS CATALOG_NAME FROM DB.DBA.SYS_KEYS where __any_grants(KEY_TABLE) and table_type (KEY_TABLE) = 'TABLE' and KEY_IS_MAIN = 1 and KEY_MIGRATE_TO is NULL"
FixedSQL(tool) ==
    CASE tool = "virt_get_schemas" -> VirtSchemasSQL
      [] tool = "sparql_get_entity_types" -> "SELECT DISTINCT * FROM ( SPARQL ... SELECT ?o ... LIMIT 100 ) AS x"
      [] tool = "sparql_get_entity_types_detailed" -> "SELECT * FROM ( SPARQL ... GROUP BY ?o ORDER BY ?o LIMIT 20 ) AS results"
      [] tool = "sparql_get_entity_types_samples" -> "SELECT * FROM ( SPARQL ... ORDER BY DESC(?sampleCount) ?o ?slabel ?olabel LIMIT 20 ) AS results"
      [] tool = "sparql_get_ontologies" -> "SELECT * FROM ( SPARQL DEFINE input:storage \"\" ... ?s a owl:Ontology ... LIMIT 100 ) AS x"

\* get_schemas: has_catalogs ? tables('%', "", "", null) : tables(null, '%', "", null)
get_schemas_tables(has_catalogs) ==
    IF has_catalogs THEN <<Str("%"), Str(""), Str(""), Null>>
    ELSE <<Null, Str("%"), Str(""), Null>>

\* get_tables: has_catalogs ? tables(schema, null, null, null) : tables(null, schema, null, null)
get_tables_tables(schema, has_catalogs) ==
    IF has_catalogs THEN <<schema, Null, Null, Null>>
    ELSE <<Null, schema, Null, Null>>

\* filter_table_names: schema = schema || '%'
FilterSchema(schema) == IF Truthy(schema) THEN schema ELSE Str("%")

\* filter_table_names: has_catalogs ? tables(schema, null, '%', null) : tables(null, schema, '%', null)
filter_table_names_tables(schema, has_catalogs) ==
    IF has_catalogs THEN <<FilterSchema(schema), Null, Str("%"), Null>>
    ELSE <<Null, FilterSchema(schema), Str("%"), Null>>

\* A faulty describe_table_columns: the schema always goes to the catalog slot.
describe_table_columnsCatalogSlot(schema, table, has_catalogs) == <<schema, Null, table, Null>>

\* describe_table: has_catalogs ? columns(schema, null, table, null) : columns(null, schema, table, null)
describe_table_columns(schema, table, has_catalogs) ==
    IF has_catalogs THEN <<schema, Null, table, Null>>
    ELSE <<Null, schema, table, Null>>

\* The call a handler issues once it holds its connection (and, for the four
\* introspection tools, its capability flag).
MainCall(tool, a, has_catalogs, connection) ==
    CASE tool = "get_schemas" ->
            Call("tables", connection, get_schemas_tables(has_catalogs))
      [] tool = "get_tables" ->
            Call("tables", connection, get_tables_tables(Default(Arg(a, "schema"), Null), has_catalogs))
      [] tool = "filter_table_names" ->
            Call("tables", connection,
                 filter_table_names_tables(Default(Arg(a, "schema"), Null), has_catalogs))
      [] tool = "describe_table" ->
            Call("columns", connection, describe_table_columns(Arg(a, "schema"), Arg(a, "table"), has_catalogs))
      [] tool \in {"query_database", "query_database_md", "query_database_jsonl"} ->
            Call("query", connection, <<Arg(a, "query")>>)
      [] tool = "spasql_query" ->
            Call("query", connection,
                 <<Str("select Demo.demo.execute_spasql_query(?,?,?,?) as result"),
                   Arr(<<Arg(a, "query"), Default(Arg(a, "max_rows"), Num(DefaultMaxRows)),
                         Default(Arg(a, "timeout"), Num(DefaultTimeout)),
                         Default(Arg(a, "format"), Str("json"))>>)>>)
      [] tool = "virtuoso_support_ai" ->
            Call("query", connection,
                 <<Str("select DEMO.DBA.OAI_VIRTUOSO_SUPPORT_AI(?,?) as result"),
                   Arr(<<Arg(a, "prompt"), Default(Arg(a, "api_key"), Str(API_KEY))>>)>>)
      [] tool = "chat_prompt_complete" ->
            Call("query", connection,
                 <<Str("select OAI.DBA.chatPromptComplete(?,?,?,?,?,?,?,?) as result"),
                   Arr(<<Arg(a, "model"), Arg(a, "prompt"), Default(Arg(a, "assistant_config_id"), Null),
                         Default(Arg(a, "function_names"), Null),
                         Default(Arg(a, "temperature"), DefaultTemperature),
                         Default(Arg(a, "top_p"), DefaultTopP),
                         Default(Arg(a, "max_tokens"), Null),
                         Default(Arg(a, "api_key"), Str(API_KEY))>>)>>)
      [] OTHER -> Call("query", connection, <<Str(FixedSQL(tool))>>)

\* A faulty Format: the two variants read the format argument too.
FormatFromArgument(tool, a) == Default(Arg(a, "format"), Str("json")).s

\* The format a tool formats its rows in
Format(tool, a) ==
    CASE tool = "query_database_md" -> "md"
      [] tool = "query_database_jsonl" -> "jsonl"
      [] OTHER -> Default(Arg(a, "format"), Str("json")).s

\* The try block after the main call has returned data: a text, or a raised error
Body(tool, a, has_catalogs, data) ==
    CASE tool = "get_schemas" -> get_schemas_body(data, has_catalogs, Format(tool, a))
      [] tool = "filter_table_names" -> filter_table_names_body(data, Arg(a, "q").s, Format(tool, a))
      [] tool \in ResultFieldTools -> result_field_body(data)
      [] OTHER -> FormatRows(data, Format(tool, a))

\* A faulty Catch: the catch clause rethrows.
CatchRethrows(error) == Throw(error)

\* catch (error) { return { ..., isError: true } }
Catch(error) == Normal(ErrorEnvelope(error))

\* The completion of try/catch once the main call has settled with r
TryCatch(tool, a, has_catalogs, r) ==
    IF r.raise THEN Catch(r.error)
    ELSE LET b == Body(tool, a, has_catalogs, r.rows)
         IN IF b.throw THEN Catch(b.error) ELSE Normal(SuccessEnvelope(b.value))

\* Two faulty NeedsClose: finally never closes; finally closes unconditionally.
NeedsCloseNever(connection) == FALSE
NeedsCloseAlways(connection) == TRUE

\* finally { if (connection) ... }
NeedsClose(connection) == Truthy(connection)

\* A faulty AfterClose: a failure of close is not caught.
AfterCloseRaises(completion, r) == IF r.raise THEN Throw(r.error) ELSE completion

\* try { await connection.close() } catch (_) {}: the completion of try/catch
\* stands whatever close settles with.
AfterClose(completion, r) == completion

(***************************************************************************)
(* The environment: the arguments a client sends and what the driver       *)
(* answers.  A result set has one column list: all its rows share it.      *)
(***************************************************************************)
\* The longest result set the driver returns in the model
MaxRows == 3
\* The longest answer to the catalog enumeration of the capability probe
MaxProbeRows == 2
\* The number of invocations that may be in flight together
MaxInFlight == 2
\* The most rows a stored-function call returns in the model
MaxResultRows == 2

Invocations == 1..MaxInFlight

NoArgs == <<>>

\* The argument record a with the field name sent as v (not sent when v is undefined)
With(a, name, v) == IF v = Undefined THEN a ELSE (name :> v) @@ a

Input(tool, a) == [tool |-> tool, args |-> a]

FormatArgs == {Undefined, Str("json"), Str("jsonl"), Str("md"), Str("MD"), Str("")}
SchemaArgs == {Undefined, Str(""), Str("Demo")}
SubstringArgs == {Str("Custom"), Str("order")}

\* The invocations of the sequential specification: every tool, with the
\* arguments its schema declares.
WideInputs ==
    {Input(tl, With(NoArgs, "format", f)) :
        tl \in {"virt_get_schemas", "get_schemas", "sparql_get_entity_types",
                "sparql_get_entity_types_detailed", "sparql_get_entity_types_samples",
                "sparql_get_ontologies"}, f \in FormatArgs}
    \cup {Input("get_tables", With(With(NoArgs, "schema", sc), "format", f)) :
            sc \in SchemaArgs, f \in FormatArgs}
    \cup {Input("filter_table_names",
                With(With(With(NoArgs, "q", q), "schema", sc), "format", f)) :
            q \in SubstringArgs, sc \in SchemaArgs, f \in FormatArgs}
    \cup {Input("describe_table",
                With(With(With(NoArgs, "schema", sc), "table", Str("Customers")), "format", f)) :
            sc \in {Str(""), Str("Demo")}, f \in FormatArgs}
    \cup {Input("query_database",
                With(With(NoArgs, "query", Str("SELECT * FROM Demo..Customers")), "format", f)) :
            f \in FormatArgs}
    \cup {Input(tl, With(With(NoArgs, "query", Str("DROP TABLE Demo..Customers")), "format", f)) :
            tl \in {"query_database_md", "query_database_jsonl"}, f \in {Undefined, Str("json")}}
    \cup {Input("spasql_query",
                With(With(NoArgs, "query", Str("SPARQL SELECT * WHERE {?s ?p ?o}")), "format", f)) :
            f \in {Undefined, Str("md")}}
    \cup {Input("virtuoso_support_ai",
                With(With(NoArgs, "prompt", Str("help")), "api_key", k)) :
            k \in {Undefined, Str("sk-xxx")}}
    \cup {Input("chat_prompt_complete",
                With(With(NoArgs, "model", Str("gpt-4o")), "prompt", Str("help")))}

\* Requests whose arguments do not have the shape the tool declares
BadRequests ==
    {Input("filter_table_names", With(NoArgs, "schema", Str("Demo"))),
     Input("filter_table_names", With(NoArgs, "q", Num(1))),
     Input("describe_table", With(NoArgs, "schema", Str("Demo"))),
     Input("describe_table", With(NoArgs, "table", Str("Customers"))),
     Input("query_database", With(NoArgs, "format", Str("md"))),
     Input("query_database_md", With(NoArgs, "query", Null)),
     Input("get_tables", With(NoArgs, "schema", Null)),
     Input("spasql_query",
           With(With(NoArgs, "query", Str("SPARQL SELECT * WHERE {?s ?p ?o}")), "timeout", Str("30"))),
     Input("virtuoso_support_ai", With(NoArgs, "api_key", Str("sk-xxx"))),
     Input("chat_prompt_complete", With(NoArgs, "prompt", Str("help")))}

\* The tools of the README's overview table
ReadmeTools ==
    {"get_schemas", "get_tables", "describe_table", "filter_table_names", "query_database",
     "execute_query", "execute_query_md", "spasql_query", "sparql_query",
     "virtuoso_support_ai"}

\* Requests for tools the README documents
DocumentedRequests ==
    {Input("sparql_query",
           With(With(NoArgs, "query", Str("SELECT * WHERE {?s ?p ?o}")), "format", f)) :
        f \in {Undefined, Str("json")}}
    \cup {Input(tl, With(NoArgs, "query", Str("SELECT * FROM Demo..Customers"))) :
            tl \in {"execute_query", "execute_query_md"}}

\* Everything a client sends in the sequential specification
WideRequests == WideInputs \cup BadRequests \cup DocumentedRequests

\* The invocations of the concurrent specification
NarrowInputs ==
    {Input("get_schemas", NoArgs),
     Input("get_tables", With(NoArgs, "schema", Str("Demo"))),
     Input("filter_table_names", With(NoArgs, "q", Str("Custom"))),
     Input("describe_table",
           With(With(NoArgs, "schema", Str("Demo")), "table", Str("Customers"))),
     Input("query_database", With(NoArgs, "query", Str("SELECT * FROM Demo..Customers")))}

\* Rows of SQLTables under the ODBC 2 and the ODBC 3 column names
TableRow2(qualifier, owner, name) ==
    Obj(<<Prop("TABLE_QUALIFIER", qualifier), Prop("TABLE_OWNER", owner),
          Prop("TABLE_NAME", name)>>)
TableRow3(cat, schem, name) ==
    Obj(<<Prop("TABLE_CAT", cat), Prop("TABLE_SCHEM", schem), Prop("TABLE_NAME", name)>>)

\* A row of a driver that reports its column names in lower case
TableRowLower(cat, schem, name) ==
    Obj(<<Prop("table_cat", cat), Prop("table_schem", schem), Prop("table_name", name)>>)

TableRows2 ==
    {TableRow2(Str("Demo"), Str("demo"), Str("Customers")),
     TableRow2(Str("DB"), Str("DBA"), Str("Products")),
     TableRow2(Null, Str("demo"), Str("CustomerOrders"))}
TableRows3 ==
    {TableRow3(Str("Demo"), Str("demo"), Str("Customers")),
     TableRow3(Null, Str("DBA"), Str("Products"))}

TableRowsLower ==
    {TableRowLower(Null, Str("public"), Str("customers"))}

\* A listing in which a row has a null TABLE_NAME
TableRowsPartlyNamed ==
    {TableRow2(Str("Demo"), Str("demo"), Str("Customers")),
     TableRow2(Str("Demo"), Str("demo"), Null)}

\* Rows of the catalog enumeration tables('%', "", "", null): a driver with
\* catalogs fills the qualifier only; one without fills the owner, or nothing.
CatalogRows2 ==
    {TableRow2(Str("Demo"), Null, Null),
     TableRow2(Null, Str("demo"), Null),
     TableRow2(Str(""), Str("demo"), Null)}
CatalogRows3 ==
    {TableRow3(Str("Demo"), Null, Null)}

ColumnRows ==
    {Obj(<<Prop("COLUMN_NAME", Str("CustomerID")), Prop("TYPE_NAME", Str("VARCHAR")),
           Prop("NULLABLE", Num(0))>>),
     Obj(<<Prop("COLUMN_NAME", Str("Phone")), Prop("TYPE_NAME", Str("VARCHAR")),
           Prop("NULLABLE", Num(1))>>)}

QueryRows ==
    {Obj(<<Prop("a", Num(1)), Prop("b", Str("x"))>>),
     Obj(<<Prop("a", Num(0)), Prop("b", Str("y\nz"))>>),
     Obj(<<Prop("a", BigInt(7)), Prop("b", Null)>>)}

ResultRows ==
    {Obj(<<Prop("result", Str("{\"head\": []}"))>>),
     Obj(<<Prop("result", Null)>>)}

\* The result sets of at most n rows over a pool of rows
Listings(pool, n) == UNION {[1..k -> pool] : k \in 0..n}

ConnectError == OdbcError("[odbc] Error connecting to the database", "08001")
ExecuteError == OdbcError("[odbc] Error executing the sql statement", "42000")
MetadataError == OdbcError("[odbc] Error getting table information", "HY000")
CloseError == OdbcError("[odbc] Error closing the connection", "08S01")

\* What the driver may answer to each kind of call
World(probe, tables, columns, query, result) ==
    [probe |-> probe, tables |-> tables, columns |-> columns, query |-> query,
     result |-> result]

\* Every call raises or returns one of the result sets ls
Answers(error, ls) == {Raise(error)} \cup {Rows(l) : l \in ls}

WideWorld ==
    World(Answers(MetadataError, Listings(CatalogRows2, MaxProbeRows)
                                   \cup Listings(CatalogRows3, MaxProbeRows)),
          Answers(MetadataError, Listings(TableRows2, MaxRows) \cup Listings(TableRows3, MaxRows)
                                   \cup Listings(TableRowsLower, MaxRows)
                                   \cup Listings(TableRowsPartlyNamed, MaxRows)),
          Answers(MetadataError, Listings(ColumnRows, MaxRows)),
          Answers(ExecuteError, Listings(QueryRows, MaxRows)),
          Answers(ExecuteError, Listings(ResultRows, MaxResultRows)))

\* The concurrent specification: the probe and the query may fail, the
\* metadata calls return one result set.
NarrowWorld ==
    World(Answers(MetadataError, {<<TableRow2(Str("Demo"), Null, Null)>>}),
          {Rows(<<TableRow2(Str("Demo"), Str("demo"), Str("Customers"))>>)},
          {Rows(<<CHOOSE r \in ColumnRows : TRUE>>)},
          Answers(ExecuteError, {<<>>}),
          {})

\* Records for the formatters: every kind of scalar, and key sets that differ
RecordRows ==
    {Obj(<<Prop("a", Num(1)), Prop("b", Str("x"))>>),
     Obj(<<Prop("a", Num(0)), Prop("b", Str("y"))>>),
     Obj(<<Prop("a", Bool(FALSE)), Prop("b", Str(""))>>),
     Obj(<<Prop("a", Bool(TRUE)), Prop("b", Null)>>),
     Obj(<<Prop("b", Str("z")), Prop("c", Num(2))>>)}

\* The formatter specification: queries only, answered with result sets of
\* such records
FormatWorld ==
    World({}, {}, {}, Answers(ExecuteError, Listings(RecordRows, MaxRows)), {})

FormatInputs ==
    {Input("query_database",
           With(With(NoArgs, "query", Str("SELECT * FROM Demo..Customers")), "format", f)) :
        f \in FormatArgs}
    \cup {Input("query_database_md", With(NoArgs, "query", Str("SELECT * FROM Demo..Customers")))}

\* The environments and .env files of the configuration specification
ProcessEnvs ==
    {<<>>,
     [ODBC_DSN |-> "Env DSN"],
     [ODBC_DSN |-> "Env DSN", ODBC_USER |-> "envuser", ODBC_PASSWORD |-> "", API_KEY |-> "env-key"]}
DotenvFiles ==
    {<<>>,
     [ODBC_DSN |-> "File DSN", ODBC_USER |-> "fileuser"],
     [ODBC_PASSWORD |-> "filepw", API_KEY |-> "file-key"]}

\* The configuration specification: a query tool and an AI tool, with and
\* without the per-call overrides
ConfigInputs ==
    {Input("query_database",
           With(With(With(With(NoArgs, "query", Str("SELECT 1")), "dsn", d), "user", u),
                "password", pw)) :
        d \in {Undefined, Str("Call DSN")}, u \in {Undefined, Str("caller")},
        pw \in {Undefined, Str("secret")}}
    \cup {Input("virtuoso_support_ai",
                With(With(With(NoArgs, "prompt", Str("help")), "api_key", k), "dsn", d)) :
            k \in {Undefined, Str("sk-xxx")}, d \in {Undefined, Str("Call DSN")}}

ConfigWorld ==
    World({}, {}, {}, Answers(ExecuteError, {<<>>}),
          Answers(ExecuteError, {<<CHOOSE r \in ResultRows : TRUE>>}))

\* Invocations with and without per-call overrides, for the specification
\* of invocations that follow one another
LaterInputs ==
    {Input("filter_table_names",
           With(With(With(NoArgs, "q", Str("Custom")), "schema", sc), "dsn", d)) :
        sc \in {Undefined, Str("Demo")}, d \in {Undefined, Str("Call DSN")}}
    \cup {Input("query_database", With(With(NoArgs, "query", Str("SELECT 1")), "user", u)) :
            u \in {Undefined, Str("caller")}}

\* The settlements of the main call of a tool
MainSettlements(W, tool) ==
    CASE tool = "describe_table" -> W.columns
      [] tool \in ProbeTools -> W.tables
      [] tool \in ResultFieldTools -> W.result
      [] OTHER -> W.query

\* The connection object odbc.connect resolves with: a fresh object, named
\* here by the invocation and the position of its connect call.
Connection(i, k) == [t |-> "connection", by |-> i, call |-> k]
Connected(c) == [raise |-> FALSE, connection |-> c]
Settled == [raise |-> FALSE]
None == [none |-> TRUE]

(***************************************************************************)
(* The state.                                                              *)
(***************************************************************************)
VARIABLES
    pc,           \* where each invocation is: idle, or the call it awaits, or done
    tool,         \* the tool each invocation was dispatched to
    args,         \* its validated arguments
    connection,   \* its local `let connection`
    has_catalogs, \* its local `const has_catalogs`
    completion,   \* the completion of its try/catch while finally runs
    outcome,      \* what its handler's promise settled with
    calls,        \* the driver calls it has issued, in order
    last,         \* the latest settlement the driver delivered to it
    opened        \* driver: the connections odbc.connect has resolved with

vars == <<pc, tool, args, connection, has_catalogs, completion, outcome, calls, last, opened,
          process_env, dotenv_file, myEnv, registeredTools>>

\* Nothing at startup changes afterwards but the file on disk
startup == <<process_env, myEnv, registeredTools>>

\* The server.tool calls made while the module loads
Registrations == [t \in Tools |-> Shape(t)]

\* No invocation has arrived
NoInvocation ==
    /\ pc = [i \in Invocations |-> "idle"]
    /\ tool = [i \in Invocations |-> "none"]
    /\ args = [i \in Invocations |-> NoArgs]
    /\ connection = [i \in Invocations |-> Undefined]
    /\ has_catalogs = [i \in Invocations |-> Undefined]
    /\ completion = [i \in Invocations |-> None]
    /\ outcome = [i \in Invocations |-> None]
    /\ calls = [i \in Invocations |-> <<>>]
    /\ last = [i \in Invocations |-> None]
    /\ opened = {}

\* The server started with no variable set and no .env file
Init ==
    /\ NoInvocation
    /\ process_env = <<>>
    /\ dotenv_file = <<>>
    /\ myEnv = loadEnv(dotenv_file, process_env)
    /\ registeredTools = Registrations

\* The server started in one of the environments of the model
InitConfig ==
    /\ NoInvocation
    /\ process_env \in ProcessEnvs
    /\ dotenv_file \in DotenvFiles
    /\ myEnv = loadEnv(dotenv_file, process_env)
    /\ registeredTools = Registrations

\* A faulty CloseTarget: the connection is kept where all invocations see it.
CloseTargetShared(i) == CHOOSE c \in opened : TRUE

\* The connection the close call of invocation i is issued on
CloseTarget(i) == connection[i]

\* A faulty FlagRead: the flag is kept where all invocations see it.
FlagReadShared(i) ==
    IF \E j \in Invocations \ {i} : has_catalogs[j] # Undefined
    THEN has_catalogs[CHOOSE j \in Invocations \ {i} : has_catalogs[j] # Undefined]
    ELSE has_catalogs[i]

\* The has_catalogs invocation i reads after its main call has settled
FlagRead(i) == has_catalogs[i]

\* A faulty Finally: the close call is issued but not awaited, so the handler
\* returns while it is pending.
FinallyClosesUnawaited(i, c, log) ==
    /\ completion' = [completion EXCEPT ![i] = c]
    /\ outcome' = [outcome EXCEPT ![i] = c]
    /\ IF NeedsClose(connection[i])
       THEN /\ calls' = [calls EXCEPT ![i] = Append(log, Call("close", CloseTarget(i), <<>>))]
            /\ pc' = [pc EXCEPT ![i] = "close"]
       ELSE /\ calls' = [calls EXCEPT ![i] = log]
            /\ pc' = [pc EXCEPT ![i] = "done"]

\* finally: close the connection if there is one, then let the completion of
\* try/catch through.  log is the call log of the invocation so far.
Finally(i, c, log) ==
    /\ completion' = [completion EXCEPT ![i] = c]
    /\ IF NeedsClose(connection[i])
       THEN /\ calls' = [calls EXCEPT ![i] = Append(log, Call("close", CloseTarget(i), <<>>))]
            /\ pc' = [pc EXCEPT ![i] = "close"]
            /\ outcome' = outcome
       ELSE /\ calls' = [calls EXCEPT ![i] = log]
            /\ pc' = [pc EXCEPT ![i] = "done"]
            /\ outcome' = [outcome EXCEPT ![i] = c]

\* The registry refuses a request: no handler runs.
Reject(i, requests) ==
    /\ pc[i] = "idle"
    /\ \E in \in requests :
        /\ ~Accepts(in.tool, in.args)
        /\ tool' = [tool EXCEPT ![i] = in.tool]
        /\ args' = [args EXCEPT ![i] = in.args]
    /\ outcome' = [outcome EXCEPT ![i] = ProtocolFailure]
    /\ pc' = [pc EXCEPT ![i] = "rejected"]
    /\ UNCHANGED <<connection, has_catalogs, completion, calls, last, opened, startup, dotenv_file>>

\* A faulty Dispatch: a dsn sent with a call is stored as the new default.
DispatchKeepsOverride(i, inputs) ==
    /\ pc[i] = "idle"
    /\ \E in \in inputs :
        /\ Accepts(in.tool, in.args)
        /\ tool' = [tool EXCEPT ![i] = in.tool]
        /\ args' = [args EXCEPT ![i] = in.args]
        /\ calls' = [calls EXCEPT ![i] =
                        <<Call("connect", Undefined, <<Str(ConnectionString(in.args))>>)>>]
        /\ myEnv' = IF "dsn" \in DOMAIN in.args
                    THEN ("ODBC_DSN" :> in.args["dsn"].s) @@ myEnv
                    ELSE myEnv
    /\ pc' = [pc EXCEPT ![i] = "connect"]
    /\ UNCHANGED <<connection, has_catalogs, completion, outcome, last, opened, process_env,
                   registeredTools, dotenv_file>>

\* A tool invocation reaches its handler, which applies the parameter
\* defaults and calls odbc.connect.
Dispatch(i, inputs) ==
    /\ pc[i] = "idle"
    /\ \E in \in inputs :
        /\ Accepts(in.tool, in.args)
        /\ tool' = [tool EXCEPT ![i] = in.tool]
        /\ args' = [args EXCEPT ![i] = in.args]
        /\ calls' = [calls EXCEPT ![i] =
                        <<Call("connect", Undefined, <<Str(ConnectionString(in.args))>>)>>]
    /\ pc' = [pc EXCEPT ![i] = "connect"]
    /\ UNCHANGED <<connection, has_catalogs, completion, outcome, last, opened, startup, dotenv_file>>

\* A faulty ConnectSettles: a failed connect is tried again.
ConnectSettlesRetrying(i) ==
    /\ pc[i] = "connect"
    /\ \E r \in {Raise(ConnectError), Connected(Connection(i, Len(calls[i])))} :
        /\ last' = [last EXCEPT ![i] = r]
        /\ IF r.raise
           THEN /\ calls' = [calls EXCEPT ![i] = Append(@, calls[i][1])]
                /\ pc' = pc
                /\ UNCHANGED <<connection, opened, completion, outcome>>
           ELSE /\ connection' = [connection EXCEPT ![i] = r.connection]
                /\ opened' = opened \cup {r.connection}
                /\ calls' = [calls EXCEPT ![i] =
                                Append(@, IF tool[i] \in ProbeTools
                                          THEN ProbeCall(r.connection)
                                          ELSE MainCall(tool[i], args[i], FALSE, r.connection))]
                /\ pc' = [pc EXCEPT ![i] = IF tool[i] \in ProbeTools THEN "probe" ELSE "main"]
                /\ UNCHANGED <<completion, outcome>>
    /\ UNCHANGED <<tool, args, has_catalogs, startup, dotenv_file>>

\* odbc.connect settles: on an error the catch clause and finally run; on
\* success the handler goes on to its next driver call.
ConnectSettles(i) ==
    /\ pc[i] = "connect"
    /\ \E r \in {Raise(ConnectError), Connected(Connection(i, Len(calls[i])))} :
        /\ last' = [last EXCEPT ![i] = r]
        /\ IF r.raise
           THEN /\ Finally(i, Catch(r.error), calls[i])
                /\ UNCHANGED <<connection, opened>>
           ELSE /\ connection' = [connection EXCEPT ![i] = r.connection]
                /\ opened' = opened \cup {r.connection}
                /\ calls' = [calls EXCEPT ![i] =
                                Append(@, IF tool[i] \in ProbeTools
                                          THEN ProbeCall(r.connection)
                                          ELSE MainCall(tool[i], args[i], FALSE, r.connection))]
                /\ pc' = [pc EXCEPT ![i] = IF tool[i] \in ProbeTools THEN "probe" ELSE "main"]
                /\ UNCHANGED <<completion, outcome>>
    /\ UNCHANGED <<tool, args, has_catalogs, startup, dotenv_file>>

\* A faulty ProbeSettles: supportsCatalogs lets the failure of its tables
\* call through to the catch clause of the handler.
ProbeSettlesPropagates(i, W) ==
    /\ pc[i] = "probe"
    /\ \E r \in W.probe :
        /\ last' = [last EXCEPT ![i] = r]
        /\ IF r.raise
           THEN /\ Finally(i, Catch(r.error), calls[i])
                /\ UNCHANGED has_catalogs
           ELSE /\ has_catalogs' = [has_catalogs EXCEPT ![i] = Bool(supportsCatalogs(r))]
                /\ calls' = [calls EXCEPT ![i] =
                                Append(@, MainCall(tool[i], args[i], supportsCatalogs(r), connection[i]))]
                /\ pc' = [pc EXCEPT ![i] = "main"]
                /\ UNCHANGED <<completion, outcome>>
    /\ UNCHANGED <<tool, args, connection, opened, startup, dotenv_file>>

\* The tables call of supportsCatalogs settles; the handler stores the flag
\* and issues its main metadata call.
ProbeSettles(i, W) ==
    /\ pc[i] = "probe"
    /\ \E r \in W.probe :
        /\ last' = [last EXCEPT ![i] = r]
        /\ has_catalogs' = [has_catalogs EXCEPT ![i] = Bool(supportsCatalogs(r))]
        /\ calls' = [calls EXCEPT ![i] =
                        Append(@, MainCall(tool[i], args[i], supportsCatalogs(r), connection[i]))]
    /\ pc' = [pc EXCEPT ![i] = "main"]
    /\ UNCHANGED <<tool, args, connection, completion, outcome, opened, startup, dotenv_file>>

\* A faulty MainSettles: a rejection of the main call is not awaited inside
\* the try block, so the handler never resumes after it.
MainSettlesLosesRaise(i, W) ==
    /\ pc[i] = "main"
    /\ \E r \in MainSettlements(W, tool[i]) :
        /\ last' = [last EXCEPT ![i] = r]
        /\ IF r.raise
           THEN /\ pc' = [pc EXCEPT ![i] = "lost"]
                /\ UNCHANGED <<completion, outcome, calls>>
           ELSE Finally(i, TryCatch(tool[i], args[i], Truthy(FlagRead(i)), r), calls[i])
    /\ UNCHANGED <<tool, args, connection, has_catalogs, opened, startup, dotenv_file>>

\* The main call settles; the rest of the try block, or the catch clause,
\* runs, and finally issues the close call.
MainSettles(i, W) ==
    /\ pc[i] = "main"
    /\ \E r \in MainSettlements(W, tool[i]) :
        /\ last' = [last EXCEPT ![i] = r]
        /\ Finally(i, TryCatch(tool[i], args[i], Truthy(FlagRead(i)), r), calls[i])
    /\ UNCHANGED <<tool, args, connection, has_catalogs, opened, startup, dotenv_file>>

\* connection.close() settles and the handler returns.
CloseSettles(i) ==
    /\ pc[i] = "close"
    /\ \E r \in {Settled, Raise(CloseError)} :
        /\ last' = [last EXCEPT ![i] = r]
        /\ outcome' = [outcome EXCEPT ![i] = AfterClose(completion[i], r)]
    /\ pc' = [pc EXCEPT ![i] = "done"]
    /\ UNCHANGED <<tool, args, connection, has_catalogs, completion, calls, opened, startup, dotenv_file>>

\* One invocation at a time, over every tool and the wide environment
Next ==
    \/ Reject(1, WideRequests)
    \/ Dispatch(1, WideRequests)
    \/ ConnectSettles(1)
    \/ ProbeSettles(1, WideWorld)
    \/ MainSettles(1, WideWorld)
    \/ CloseSettles(1)

Spec == Init /\ [][Next]_vars

\* Invocations in flight together, their awaits interleaved
NextConc ==
    \E i \in Invocations :
        \/ Dispatch(i, NarrowInputs)
        \/ ConnectSettles(i)
        \/ ProbeSettles(i, NarrowWorld)
        \/ MainSettles(i, NarrowWorld)
        \/ CloseSettles(i)

SpecConc == Init /\ [][NextConc]_vars

\* The handler of invocation i leaves the await of a driver call: the call
\* has settled and the handler goes on to its next await or to its return
Resumes(i, await) ==
    /\ pc[i] = await
    /\ \E next \in {"probe", "main", "close", "done"} \ {await} : pc' = [pc EXCEPT ![i] = next]

\* Every driver call eventually returns or raises, and the handler awaiting
\* it then resumes: no invocation stays at an await for ever
DriverSettles ==
    \A i \in Invocations :
        \A await \in {"connect", "probe", "main", "close"} : WF_pc(Resumes(i, await))

SpecLive == SpecConc /\ DriverSettles

\* One query tool invocation at a time, over the records of the formatters
NextFormat ==
    \/ Dispatch(1, FormatInputs)
    \/ ConnectSettles(1)
    \/ MainSettles(1, FormatWorld)
    \/ CloseSettles(1)

SpecFormat == Init /\ [][NextFormat]_vars

\* Invocations before, after and beside one another
NextLater ==
    \E i \in Invocations :
        \/ Dispatch(i, LaterInputs)
        \/ ConnectSettles(i)
        \/ ProbeSettles(i, NarrowWorld)
        \/ MainSettles(i, NarrowWorld)
        \/ CloseSettles(i)

SpecLater == Init /\ [][NextLater]_vars

\* The .env file is edited, created or removed while the server runs.
FileChanges ==
    /\ dotenv_file' \in DotenvFiles \ {dotenv_file}
    /\ UNCHANGED <<pc, tool, args, connection, has_catalogs, completion, outcome, calls,
                   last, opened, startup>>

\* One invocation at a time in a server started in any environment
NextConfig ==
    \/ Dispatch(1, ConfigInputs)
    \/ ConnectSettles(1)
    \/ MainSettles(1, ConfigWorld)
    \/ CloseSettles(1)
    \/ FileChanges

SpecConfig == InitConfig /\ [][NextConfig]_vars

\* ---------------------------------------------------------------------------
\* Properties
\* ---------------------------------------------------------------------------

\* How many calls of operation op the log holds
Count(log, op) == Cardinality({k \in DOMAIN log : log[k].op = op})

\* The close calls, of any invocation, issued on connection c
ClosePairs(c) ==
    {p \in UNION {{<<i, k>> : k \in DOMAIN calls[i]} : i \in Invocations} :
        /\ calls[p[1]][p[2]].op = "close"
        /\ calls[p[1]][p[2]].on = c}

\* Invocation i has obtained a connection from odbc.connect
ConnectSucceeded(i) == \E c \in opened : c.by = i

\* The envelope invocation i has returned is an error envelope with this text
ReturnedError(i, text) ==
    /\ ~outcome[i].throw
    /\ IsError(outcome[i].value)
    /\ outcome[i].value.content[1].text = Str(text)

\* JSON.stringify(error, null, 2) of a driver error with one odbcErrors entry,
\* written out character by character
SerializedOdbcError(error) ==
    LET entry == Get(error, "odbcErrors").items[1]
    IN  "{\n  \"odbcErrors\": [\n    {\n      \"state\": \"" \o Get(entry, "state").s
            \o "\",\n      \"code\": 0,\n      \"message\": \"" \o Get(entry, "message").s
            \o "\"\n    }\n  ]\n}"

\* C1: an invocation calls odbc.connect at most once, no connection is closed
\* more than once, and when the invocation has finished every connection it
\* opened has received exactly one close call.
C1_ConnectOnceCloseOnce ==
    \A i \in Invocations :
        /\ Count(calls[i], "connect") <= 1
        /\ \A c \in opened :
            c.by = i =>
                /\ Cardinality(ClosePairs(c)) <= 1
                /\ pc[i] = "done" => Cardinality(ClosePairs(c)) = 1

\* query_database has finished with an open connection after its formatter failed.
C1_Witness ==
    \E i \in Invocations :
        /\ pc[i] = "done"
        /\ tool[i] = "query_database"
        /\ ConnectSucceeded(i)
        /\ ReturnedError(i, "Error: {}")
        /\ Count(calls[i], "close") = 1

\* C2 as stated: every finished invocation has issued exactly one close call,
\* the ones whose odbc.connect failed included.
C2_CloseInEveryInvocation ==
    \A i \in Invocations : pc[i] = "done" => Count(calls[i], "close") = 1

\* C2: an invocation never issues more than one close call; when it has
\* finished it has issued exactly one if its odbc.connect succeeded and none
\* if odbc.connect itself failed.
C2_CloseIffConnected ==
    \A i \in Invocations :
        /\ Count(calls[i], "close") <= 1
        /\ pc[i] = "done" =>
            Count(calls[i], "close") = (IF ConnectSucceeded(i) THEN 1 ELSE 0)

\* An invocation whose odbc.connect failed has finished without a close call.
C2_Witness ==
    \E i \in Invocations :
        /\ pc[i] = "done"
        /\ last[i] = Raise(ConnectError)
        /\ ~ConnectSucceeded(i)
        /\ Count(calls[i], "close") = 0

C5_FailureBecomesErrorEnvelope ==
    \A i \in Invocations :
        /\ (pc[i] = "close" /\ last[i].raise) =>
            /\ ~completion[i].throw
            /\ IsError(completion[i].value)
            /\ completion[i].value.content[1].text
                = Str("Error: " \o SerializedOdbcError(last[i].error))
        /\ (pc[i] = "done" /\ ~ConnectSucceeded(i)) =>
            /\ last[i].raise
            /\ ReturnedError(i, "Error: " \o SerializedOdbcError(last[i].error))
        /\ pc[i] = "done" => ~outcome[i].throw

\* describe_table's columns call has raised and the handler has produced its
\* error envelope.
C5_Witness ==
    \E i \in Invocations :
        /\ pc[i] = "close"
        /\ tool[i] = "describe_table"
        /\ last[i] = Raise(MetadataError)
        /\ IsError(completion[i].value)

\* Every driver call of invocation i that is made on a connection is made on
\* a connection odbc.connect handed to invocation i.
OwnConnection(i) ==
    /\ connection[i] # Undefined => (connection[i] \in opened /\ connection[i].by = i)
    /\ \A k \in DOMAIN calls[i] :
        calls[i][k].op # "connect" =>
            /\ calls[i][k].on \in opened
            /\ calls[i][k].on.by = i

\* What invocation i holds is what its own tool, arguments and driver
\* responses determine.
OwnResponsesOnly(i) ==
    /\ (pc[i] = "main" /\ tool[i] \in ProbeTools) =>
            has_catalogs[i] = Bool(supportsCatalogs(last[i]))
    /\ (pc[i] = "main" /\ tool[i] \notin ProbeTools) => has_catalogs[i] = Undefined
    /\ pc[i] = "close" =>
            completion[i] = TryCatch(tool[i], args[i], Truthy(has_catalogs[i]), last[i])
    /\ (pc[i] = "done" /\ ~ConnectSucceeded(i)) =>
            outcome[i] = Normal(ErrorEnvelope(last[i].error))
    /\ pc[i] = "done" => outcome[i] = completion[i]

\* A step that is not a step of invocation i leaves what invocation i holds alone.
OthersLeaveAlone(i) ==
    pc'[i] = pc[i] =>
        /\ tool'[i] = tool[i]
        /\ args'[i] = args[i]
        /\ connection'[i] = connection[i]
        /\ has_catalogs'[i] = has_catalogs[i]
        /\ completion'[i] = completion[i]
        /\ outcome'[i] = outcome[i]
        /\ calls'[i] = calls[i]
        /\ last'[i] = last[i]

\* C6: with invocations in flight together and their awaits interleaved, each
\* invocation makes its calls, close included, only on the connection it opened;
\* its flag, result and envelope are what its own driver responses determine;
\* and no step of another invocation changes anything it holds.
C6_InvocationsIsolated ==
    /\ [](\A i \in Invocations : OwnConnection(i) /\ OwnResponsesOnly(i))
    /\ [][\A i \in Invocations : OthersLeaveAlone(i)]_vars

\* filter_table_names has produced its envelope and is closing its connection
\* while a query_database invocation awaits its query on another connection.
C6_Witness ==
    \E i, j \in Invocations :
        /\ i # j
        /\ tool[i] = "filter_table_names" /\ pc[i] = "close"
        /\ has_catalogs[i] = Bool(TRUE)
        /\ tool[j] = "query_database" /\ pc[j] = "main"
        /\ connection[i] # connection[j]

\* The first row of a settled tables call carries a non-empty TABLE_QUALIFIER
QualifierPopulated(r) ==
    /\ ~r.raise
    /\ Len(r.rows) >= 1
    /\ \E k \in DOMAIN r.rows[1].props :
        /\ r.rows[1].props[k].k = "TABLE_QUALIFIER"
        /\ r.rows[1].props[k].v.t = "string"
        /\ r.rows[1].props[k].v.s # ""

\* C7: the probe is the call tables('%', "", "", null); the flag is true
\* exactly when that call returned at least one row whose first row has a
\* non-empty TABLE_QUALIFIER, so false on no rows, on a first row without a
\* qualifier and on a raise; and after the probe the handler carries on with
\* its main call, no error envelope produced.
C7_ProbeContract ==
    \A i \in Invocations :
        tool[i] \in ProbeTools =>
            /\ Len(calls[i]) >= 2 =>
                /\ calls[i][2].op = "tables"
                /\ calls[i][2].args = <<Str("%"), Str(""), Str(""), Null>>
            /\ pc[i] = "main" =>
                /\ has_catalogs[i] = Bool(QualifierPopulated(last[i]))
                /\ Len(calls[i]) = 3
                /\ completion[i] = None
                /\ outcome[i] = None

\* The probe has returned two rows, the first with a qualifier, and the flag is true.
C7_Witness ==
    \E i \in Invocations :
        /\ pc[i] = "main"
        /\ tool[i] \in ProbeTools
        /\ ~last[i].raise
        /\ Len(last[i].rows) = 2
        /\ has_catalogs[i] = Bool(TRUE)

\* The qualifier get_schemas reads from a row under the flag
QualifierOf(row, flag) ==
    IF flag
    THEN IF HasKey(row, "TABLE_CAT") THEN Get(row, "TABLE_CAT") ELSE Get(row, "TABLE_QUALIFIER")
    ELSE IF HasKey(row, "TABLE_SCHEM") THEN Get(row, "TABLE_SCHEM") ELSE Get(row, "TABLE_OWNER")

\* The records {CATALOG_NAME: value}, one per distinct qualifier of the rows,
\* ordered by the first row each value occurs in
ExpectedCatalogs(rows, flag) ==
    LET vals == [j \in DOMAIN rows |-> QualifierOf(rows[j], flag)]
        found == {vals[j] : j \in DOMAIN rows}
        first(v) == CHOOSE j \in DOMAIN rows : vals[j] = v /\ \A k \in 1..(j - 1) : vals[k] # v
        order == CHOOSE f \in [1..Cardinality(found) -> found] :
                    \A a, b \in 1..Cardinality(found) : a < b => first(f[a]) < first(f[b])
    IN  [j \in 1..Cardinality(found) |-> Obj(<<Prop("CATALOG_NAME", order[j])>>)]

\* The slot of the main metadata call of invocation i agrees with its flag
MainCallFollowsFlag(i) ==
    LET m == calls[i][3].args
    IN  IF tool[i] = "get_schemas"
        THEN IF has_catalogs[i] = Bool(TRUE) THEN m[1] = Str("%")
             ELSE m[1] = Null /\ m[2] = Str("%")
        ELSE IF has_catalogs[i] = Bool(TRUE) THEN m[1] # Null /\ m[2] = Null
             ELSE m[1] = Null /\ m[2] # Null

\* C8: in the four probing tools the probe is the call right after connect, on
\* the invocation's own connection; there is no flag before it; the flag is
\* what that probe returned and never changes afterwards; the main metadata
\* call and, in get_schemas, the column the names are read from follow it.
C8_FlagOncePerInvocation ==
    /\ [](\A i \in Invocations :
            tool[i] \in ProbeTools =>
                /\ pc[i] \in {"connect", "probe"} => has_catalogs[i] = Undefined
                /\ Len(calls[i]) >= 2 =>
                    /\ calls[i][1].op = "connect"
                    /\ calls[i][2] = [op |-> "tables", on |-> connection[i],
                                      args |-> <<Str("%"), Str(""), Str(""), Null>>]
                    /\ connection[i].by = i
                /\ pc[i] = "main" => has_catalogs[i] = Bool(QualifierPopulated(last[i]))
                /\ Len(calls[i]) >= 3 =>
                    /\ has_catalogs[i] \in {Bool(TRUE), Bool(FALSE)}
                    /\ calls[i][3].on = connection[i]
                    /\ MainCallFollowsFlag(i)
                /\ (pc[i] = "close" /\ tool[i] = "get_schemas" /\ ~last[i].raise) =>
                    completion[i] = Normal(SuccessEnvelope(
                        FormatRows(ExpectedCatalogs(last[i].rows, has_catalogs[i] = Bool(TRUE)),
                                   Format(tool[i], args[i])).value)))
    /\ [][\A i \in Invocations :
            has_catalogs[i] # Undefined => has_catalogs'[i] = has_catalogs[i]]_vars

\* Two get_schemas invocations in flight, one with the flag true and one with
\* it false, the latter having produced its envelope.
C8_Witness ==
    \E i, j \in Invocations :
        /\ tool[i] = "get_schemas" /\ tool[j] = "get_schemas"
        /\ has_catalogs[i] = Bool(FALSE) /\ has_catalogs[j] = Bool(TRUE)
        /\ pc[i] = "close" /\ ~last[i].raise
        /\ pc[j] \in {"main", "close"}

\* The tools that take the caller's schema into a metadata call
SchemaTools == {"get_tables", "filter_table_names", "describe_table"}

\* The main metadata call of invocation i carries v in the catalog slot when
\* the flag is true and in the schema slot when it is false, the other slot null.
PlacedByFlag(i, v) ==
    LET m == calls[i][3].args
    IN  IF has_catalogs[i] = Bool(TRUE)
        THEN m[1] = v /\ m[2] = Null
        ELSE m[1] = Null /\ m[2] = v

\* C9 as stated: whenever the caller gave a schema, that value is what the
\* main metadata call carries in the slot the flag selects.
C9_CallerSchemaPlaced ==
    \A i \in Invocations :
        (tool[i] \in SchemaTools /\ Len(calls[i]) >= 3 /\ "schema" \in DOMAIN args[i]) =>
            PlacedByFlag(i, args[i]["schema"])

\* The value the handler places: the caller's schema, except that get_tables
\* places null when none was given and filter_table_names places '%' when
\* none was given or the one given is the empty string.
SchemaPlaced(i) ==
    LET given == "schema" \in DOMAIN args[i]
    IN  CASE tool[i] = "filter_table_names" ->
                IF given /\ args[i]["schema"] # Str("") THEN args[i]["schema"] ELSE Str("%")
          [] tool[i] = "get_tables" -> IF given THEN args[i]["schema"] ELSE Null
          [] OTHER -> args[i]["schema"]

\* C9: the main metadata call carries the placed value in the catalog slot
\* (schema slot null) when the flag is true and in the schema slot (catalog
\* slot null) when it is false; describe_table with schema "Demo" and table
\* "Customers" without catalog support calls columns(null, "Demo", "Customers", null).
C9_SchemaSlotFollowsFlag ==
    \A i \in Invocations :
        (tool[i] \in SchemaTools /\ Len(calls[i]) >= 3) =>
            /\ PlacedByFlag(i, SchemaPlaced(i))
            /\ (/\ tool[i] = "describe_table"
                /\ args[i]["schema"] = Str("Demo")
                /\ args[i]["table"] = Str("Customers")
                /\ has_catalogs[i] = Bool(FALSE)) =>
                    calls[i][3] = [op |-> "columns", on |-> connection[i],
                                   args |-> <<Null, Str("Demo"), Str("Customers"), Null>>]

\* describe_table {schema: "Demo", table: "Customers"} has issued its columns
\* call on a connection whose probe found no catalogs.
C9_Witness ==
    \E i \in Invocations :
        /\ tool[i] = "describe_table"
        /\ pc[i] = "main"
        /\ args[i]["schema"] = Str("Demo")
        /\ has_catalogs[i] = Bool(FALSE)
        /\ calls[i][3].op = "columns"
        /\ calls[i][3].args[2] = Str("Demo")

Contains(s, q) ==
    \E a, b \in 0..Len(s) :
        /\ a + Len(q) + b = Len(s)
        /\ SubSeq(s, 1, a) \o q \o SubSeq(s, Len(s) - b + 1, Len(s)) = s

\* The rows whose TABLE_NAME contains q, each at the rank it has among them
Retained(rows, q) ==
    LET keep == {j \in DOMAIN rows : Contains(Get(rows[j], "TABLE_NAME").s, q)}
        nth(n) == CHOOSE j \in keep : Cardinality({k \in keep : k < j}) = n - 1
    IN  [n \in 1..Cardinality(keep) |-> rows[nth(n)]]

\* The TABLE_NAME of every row is a string
TablesNamed(rows) == \A j \in DOMAIN rows : Get(rows[j], "TABLE_NAME").t = "string"

\* The names of the listing
TableNames(rows) == [j \in DOMAIN rows |-> Get(rows[j], "TABLE_NAME")]

FormattingTools == Tools \ ResultFieldTools

\* The format invocation i formats in: fixed by query_database_md and
\* query_database_jsonl, else the format argument, else json
FormatAsked(i) ==
    CASE tool[i] = "query_database_md" -> "md"
      [] tool[i] = "query_database_jsonl" -> "jsonl"
      [] "format" \in DOMAIN args[i] -> args[i]["format"].s
      [] OTHER -> "json"

\* The text of an empty result set in a format
EmptyText(format) ==
    CASE format = "md" -> "No results found."
      [] format = "jsonl" -> ""
      [] OTHER -> "[]"

\* Invocation i, its main call having returned, has an empty result set to
\* format: the driver returned no row, or filter_table_names retained none.
FormatsEmptySet(i) ==
    /\ tool[i] \in FormattingTools
    /\ pc[i] = "close"
    /\ ~last[i].raise
    /\ \/ Len(last[i].rows) = 0
       \/ /\ tool[i] = "filter_table_names"
          /\ TablesNamed(last[i].rows)
          /\ Len(Retained(last[i].rows, args[i]["q"].s)) = 0

\* C12: every tool that formats a result set itself answers an empty one with
\* the success text "No results found." in md, "[]" in json and "" in jsonl;
\* in md no column of a first record is looked at, so nothing is raised.
C12_EmptyResultTexts ==
    \A i \in Invocations :
        FormatsEmptySet(i) =>
            completion[i] = Normal(SuccessEnvelope(Str(EmptyText(FormatAsked(i)))))

\* query_database_md has formatted a result set of no rows.
C12_Witness ==
    \E i \in Invocations :
        /\ FormatsEmptySet(i)
        /\ tool[i] = "query_database_md"
        /\ completion[i].value.content[1].text = Str("No results found.")

\* The result set invocation i formats once its main call has returned: the
\* records get_schemas builds, the rows filter_table_names retains, else the
\* rows of the driver
FormattedSet(i) ==
    CASE tool[i] = "get_schemas" ->
            ExpectedCatalogs(last[i].rows, has_catalogs[i] = Bool(TRUE))
      [] tool[i] = "filter_table_names" -> Retained(last[i].rows, args[i]["q"].s)
      [] OTHER -> last[i].rows

\* Invocation i has a non-empty result set to format whose values are
\* strings, numbers, booleans, null or undefined
FormatsRecords(i) ==
    /\ tool[i] \in FormattingTools
    /\ pc[i] = "close"
    /\ ~last[i].raise
    /\ tool[i] = "filter_table_names" => TablesNamed(last[i].rows)
    /\ Len(FormattedSet(i)) > 0
    /\ \A j \in DOMAIN FormattedSet(i) :
        \A k \in DOMAIN FormattedSet(i)[j].props :
            FormattedSet(i)[j].props[k].v.t
                \in {"string", "number", "boolean", "null", "undefined"}

RECURSIVE Lines(_)
\* The pieces of s between its newline characters
Lines(s) ==
    IF \E j \in 1..Len(s) : SubSeq(s, j, j) = "\n"
    THEN LET j == CHOOSE j \in 1..Len(s) :
                    /\ SubSeq(s, j, j) = "\n"
                    /\ \A k \in 1..(j - 1) : SubSeq(s, k, k) # "\n"
         IN <<SubSeq(s, 1, j - 1)>> \o Lines(SubSeq(s, j + 1, Len(s)))
    ELSE <<s>>

\* The key a property line of a pretty-printed record starts with
KeyOfLine(l) ==
    LET k == CHOOSE k \in 6..Len(l) :
                /\ SubSeq(l, k, k) = "\""
                /\ \A m \in 6..(k - 1) : SubSeq(l, m, m) # "\""
    IN SubSeq(l, 6, k - 1)

RECURSIVE ParseRecords(_, _, _)
\* Reading the lines of a 2-space pretty-printed array of flat records: the
\* keys of each record, in order (acc the records read, cur the keys of the
\* record being read)
ParseRecords(lines, acc, cur) ==
    IF Len(lines) = 0 THEN acc
    ELSE LET l == Head(lines)
         IN CASE l = "  {" -> ParseRecords(Tail(lines), acc, <<>>)
              [] l \in {"  }", "  },"} -> ParseRecords(Tail(lines), Append(acc, cur), <<>>)
              [] l \in {"  {}", "  {},"} -> ParseRecords(Tail(lines), Append(acc, <<>>), <<>>)
              [] Len(l) > 5 /\ SubSeq(l, 1, 5) = "    \"" ->
                    ParseRecords(Tail(lines), acc, Append(cur, KeyOfLine(l)))
              [] OTHER -> ParseRecords(Tail(lines), acc, cur)

\* The keys of the records a json-mode text parses back into
ParsedKeys(text) == ParseRecords(Lines(text), <<>>, <<>>)

\* C13: in json mode the text of a non-empty result set parses back into an
\* array of as many records, record by record with the keys of the result
\* set, a key whose value is undefined being kept (written as null); the
\* records get_schemas builds are among them.
C13_JsonKeepsKeys ==
    \A i \in Invocations :
        (FormatsRecords(i) /\ FormatAsked(i) \notin {"md", "jsonl"}) =>
            /\ ~completion[i].throw
            /\ ~IsError(completion[i].value)
            /\ LET parsed == ParsedKeys(completion[i].value.content[1].text.s)
                   R == FormattedSet(i)
               IN /\ Len(parsed) = Len(R)
                  /\ \A j \in DOMAIN R : parsed[j] = Keys(R[j])

\* The compact JSON encoding of a flat record, written out: the properties
\* whose value is not undefined, "key":value, comma separated, in braces
CompactRecord(row) ==
    LET value(v) == CASE v.t = "string" -> "\"" \o Escape(v.s) \o "\""
                      [] v.t = "number" -> ToString(v.n)
                      [] v.t = "boolean" -> (IF v.b THEN "true" ELSE "false")
                      [] OTHER -> "null"
        kept == SelectSeq(row.props, LAMBDA p : p.v # Undefined)
    IN "{" \o Join([j \in DOMAIN kept |-> "\"" \o kept[j].k \o "\":" \o value(kept[j].v)], ",")
           \o "}"

\* C14: in jsonl mode the text of a non-empty result set splits on newline
\* into as many lines as there are records, line j being the compact JSON
\* encoding of record j; so one newline between records, none at the end, no
\* enclosing array, also when a value holds a newline character.
C14_JsonlOneLinePerRecord ==
    \A i \in Invocations :
        (FormatsRecords(i) /\ FormatAsked(i) = "jsonl") =>
            /\ ~completion[i].throw
            /\ ~IsError(completion[i].value)
            /\ LET split == Lines(completion[i].value.content[1].text.s)
                   R == FormattedSet(i)
               IN /\ Len(split) = Len(R)
                  /\ \A j \in DOMAIN R :
                        /\ split[j] = CompactRecord(R[j])
                        /\ SubSeq(split[j], 1, 1) = "{"

\* Two or more query rows, one of them holding a newline in a value, have
\* been formatted as jsonl.
C14_Witness ==
    \E i \in Invocations :
        /\ FormatsRecords(i)
        /\ FormatAsked(i) = "jsonl"
        /\ Len(last[i].rows) >= 2
        /\ \E j \in DOMAIN last[i].rows : Get(last[i].rows[j], "b") = Str("y\nz")
        /\ ~IsError(completion[i].value)

RECURSIVE Pieces(_, _)
\* The pieces of s between the occurrences of the character ch
Pieces(s, ch) ==
    IF \E j \in 1..Len(s) : SubSeq(s, j, j) = ch
    THEN LET j == CHOOSE j \in 1..Len(s) :
                    /\ SubSeq(s, j, j) = ch
                    /\ \A k \in 1..(j - 1) : SubSeq(s, k, k) # ch
         IN <<SubSeq(s, 1, j - 1)>> \o Pieces(SubSeq(s, j + 1, Len(s)), ch)
    ELSE <<s>>

\* The lines of a text in which every line ends with a newline
TableLines(text) ==
    LET ps == Pieces(text, "\n") IN SubSeq(ps, 1, Len(ps) - 1)

\* The cells of a table line "| c1 | c2 |": what stands between the bars,
\* less the blank on either side
TableCells(l) ==
    LET ps == Pieces(l, "|")
    IN [c \in 1..(Len(ps) - 2) |-> SubSeq(ps[c + 1], 2, Len(ps[c + 1]) - 1)]

\* The values that test false
TestsFalse(v) == v \in {Null, Undefined, Num(0), Bool(FALSE), Str("")}

\* String(v) of a string, a number or a boolean
StringOf(v) ==
    CASE v.t = "string" -> v.s
      [] v.t = "number" -> ToString(v.n)
      [] v.t = "boolean" -> (IF v.b THEN "true" ELSE "false")

\* Invocation i has rendered the non-empty result set its query returned as a
\* Markdown table
RendersTable(i) ==
    /\ tool[i] \in {"query_database", "query_database_md"}
    /\ FormatAsked(i) = "md"
    /\ pc[i] = "close"
    /\ ~last[i].raise
    /\ Len(last[i].rows) > 0
    /\ ~completion[i].throw
    /\ ~IsError(completion[i].value)

\* The text invocation i has produced
TextOf(i) == completion[i].value.content[1].text.s

\* C15: in a Markdown table a cell is empty for every value that tests false
\* (null, undefined, 0, false, "") and String(value) for every other value;
\* {a: 1, b: "x"} then {a: 0, b: "y"} renders as the header "| a | b |", the
\* separator "| --- | --- |", then "| 1 | x |" and "|  | y |".
C15_FalsyCellsEmpty ==
    \A i \in Invocations :
        RendersTable(i) =>
            LET R == last[i].rows
                columns == Keys(R[1])
                lines == TableLines(TextOf(i))
            IN /\ \A j \in DOMAIN R : \A c \in DOMAIN columns :
                    LET v == IF \E k \in DOMAIN R[j].props : R[j].props[k].k = columns[c]
                             THEN Get(R[j], columns[c]) ELSE Undefined
                    IN TableCells(lines[j + 2])[c]
                            = (IF TestsFalse(v) THEN "" ELSE StringOf(v))
               /\ R = <<Obj(<<Prop("a", Num(1)), Prop("b", Str("x"))>>),
                        Obj(<<Prop("a", Num(0)), Prop("b", Str("y"))>>)>>
                    => TextOf(i) = "| a | b |\n| --- | --- |\n| 1 | x |\n|  | y |\n"

\* {a: 1, b: "x"} then {a: 0, b: "y"} has been rendered as a Markdown table.
C15_Witness ==
    \E i \in Invocations :
        /\ RendersTable(i)
        /\ last[i].rows = <<Obj(<<Prop("a", Num(1)), Prop("b", Str("x"))>>),
                            Obj(<<Prop("a", Num(0)), Prop("b", Str("y"))>>)>>

BoundParameters(i) == calls[i][2].args[2].items

\* C17: spasql_query, virtuoso_support_ai and chat_prompt_complete answer
\* with the value of the result field of the first row the stored-function
\* call returned, as it is, whatever format spasql_query was given; that
\* format is the fourth parameter bound to the call ('json' when not given).
C17_ResultFieldAsIs ==
    \A i \in Invocations :
        tool[i] \in ResultFieldTools =>
            /\ (tool[i] = "spasql_query" /\ Len(calls[i]) >= 2) =>
                BoundParameters(i)[4]
                    = (IF "format" \in DOMAIN args[i] THEN args[i]["format"] ELSE Str("json"))
            /\ (pc[i] = "close" /\ ~last[i].raise /\ Len(last[i].rows) >= 1) =>
                \E k \in DOMAIN last[i].rows[1].props :
                    /\ last[i].rows[1].props[k].k = "result"
                    /\ completion[i]
                        = Normal([content |-> <<[type |-> "text",
                                                 text |-> last[i].rows[1].props[k].v]>>])

\* spasql_query asked for md has answered with the text the engine returned
\* in the first of two rows.
C17_Witness ==
    \E i \in Invocations :
        /\ tool[i] = "spasql_query"
        /\ pc[i] = "close"
        /\ Arg(args[i], "format") = Str("md")
        /\ ~last[i].raise
        /\ Len(last[i].rows) = 2
        /\ last[i].rows[1] # last[i].rows[2]
        /\ completion[i].value.content[1].text = Str("{\"head\": []}")

\* C18: a request for the tool sparql_query reaches a handler, which opens a
\* connection and calls a fixed stored function with the caller's query text
\* among the bound parameters.
C18_SparqlQueryRegistered ==
    \A i \in Invocations :
        (tool[i] = "sparql_query" /\ pc[i] # "idle") =>
            /\ pc[i] # "rejected"
            /\ Len(calls[i]) >= 1
            /\ calls[i][1].op = "connect"
            /\ Len(calls[i]) >= 2 =>
                /\ calls[i][2].op = "query"
                /\ \E k \in DOMAIN BoundParameters(i) : BoundParameters(i)[k] = args[i]["query"]

\* The fields each tool cannot be called without
RequiredFields(t) ==
    CASE t = "filter_table_names" -> {"q"}
      [] t = "describe_table" -> {"schema", "table"}
      [] t \in {"query_database", "query_database_md", "query_database_jsonl", "spasql_query"} ->
            {"query"}
      [] t = "virtuoso_support_ai" -> {"prompt"}
      [] t = "chat_prompt_complete" -> {"model", "prompt"}
      [] OTHER -> {}

\* The fields that are numbers; every other field is a string
NumberFields == {"max_rows", "timeout", "temperature", "top_p", "max_tokens"}

\* The request of invocation i lacks a required field or carries a field of
\* the wrong type
Malformed(i) ==
    \/ \E f \in RequiredFields(tool[i]) : f \notin DOMAIN args[i]
    \/ \E f \in DOMAIN args[i] :
        args[i][f].t # (IF f \in NumberFields THEN "number" ELSE "string")

\* C19: a request to a registered tool that lacks a required field or carries
\* a field of the wrong type is refused before any handler runs: no
\* connection is opened, no driver call is made, no envelope is built, and
\* the caller gets a protocol failure.
C19_MalformedNeverReachesHandler ==
    \A i \in Invocations :
        (pc[i] # "idle" /\ tool[i] \in Tools /\ Malformed(i)) =>
            /\ pc[i] = "rejected"
            /\ calls[i] = <<>>
            /\ connection[i] = Undefined
            /\ \A c \in opened : c.by # i
            /\ completion[i] = None
            /\ outcome[i].throw
            /\ outcome[i] = ProtocolFailure

\* filter_table_names called without q has been refused.
C19_Witness ==
    \E i \in Invocations :
        /\ tool[i] = "filter_table_names"
        /\ "q" \notin DOMAIN args[i]
        /\ pc[i] = "rejected"
        /\ outcome[i].throw

\* The value the precedence chain gives to a setting: the per-call argument
\* when supplied, else the environment variable, else the value of the .env
\* file, else the built-in default
Precedence(arg, env, file, key, builtin) ==
    IF arg # Undefined THEN arg.s
    ELSE IF key \in DOMAIN env THEN env[key]
    ELSE IF key \in DOMAIN file THEN file[key]
    ELSE builtin

\* The environment and the .env file as one lookup for the chain: the
\* variables the environment lacks, taken from the file
FileShare(merged, env) == [k \in DOMAIN merged \ DOMAIN env |-> merged[k]]

ConfigKeys == {"ODBC_DSN", "ODBC_USER", "ODBC_PASSWORD", "API_KEY"}

\* At startup the merged settings are those of the environment and, for the
\* variables it lacks, those of the .env file as it then is
MergedAtStartup ==
    /\ DOMAIN myEnv = DOMAIN process_env \cup DOMAIN dotenv_file
    /\ \A k \in DOMAIN myEnv :
        myEnv[k] = IF k \in DOMAIN process_env THEN process_env[k] ELSE dotenv_file[k]

\* The connection string and the api key an invocation used follow the chain
FollowsChain(i) ==
    LET file == FileShare(myEnv, process_env)
        chain(name, key, builtin) ==
            Precedence(Arg(args[i], name), process_env, file, key, builtin)
    IN  /\ Len(calls[i]) >= 1 =>
            calls[i][1].args =
                <<Str("DSN=" \o chain("dsn", "ODBC_DSN", "Local Virtuoso")
                      \o ";UID=" \o chain("user", "ODBC_USER", "demo")
                      \o ";PWD=" \o chain("password", "ODBC_PASSWORD", "demo"))>>
        /\ (tool[i] = "virtuoso_support_ai" /\ Len(calls[i]) >= 2) =>
            BoundParameters(i)[2] = Str(chain("api_key", "API_KEY", "none"))

\* C20: dsn, user, password and api_key are each resolved by one chain: the
\* per-call argument when supplied, else the environment variable, else the
\* value of the .env file, else the built-in default ("Local Virtuoso",
\* "demo", "demo", "none"); the environment and the file are merged once, at
\* startup, and later changes of the file do not reach any call.
C20_ConfigurationPrecedence ==
    /\ MergedAtStartup
    /\ [][myEnv' = myEnv /\ process_env' = process_env]_vars
    /\ [](\A i \in Invocations : FollowsChain(i))

\* An invocation without a dsn, in a server started with no ODBC_DSN in the
\* environment and one in the .env file, connected with the file's value
\* although the file has lost it since; its api key came from the environment
C20_Witness ==
    /\ "ODBC_DSN" \notin DOMAIN process_env
    /\ "ODBC_DSN" \notin DOMAIN dotenv_file
    /\ "ODBC_DSN" \in DOMAIN myEnv
    /\ \E i \in Invocations :
        /\ pc[i] = "done"
        /\ Arg(args[i], "dsn") = Undefined
        /\ Arg(args[i], "user") = Str("caller")
        /\ Len(calls[i]) >= 2
        /\ calls[i][1].args = <<Str("DSN=File DSN;UID=caller;PWD=demo")>>


\* C21: a request that names a tool of the README's overview table and
\* carries well-formed arguments is dispatched: it is not refused, and its
\* handler starts by connecting.
C21_ReadmeToolsDispatched ==
    \A i \in Invocations :
        (tool[i] \in ReadmeTools /\ pc[i] # "idle" /\ ~Malformed(i)) =>
            /\ pc[i] # "rejected"
            /\ Len(calls[i]) >= 1
            /\ calls[i][1].op = "connect"


\* The three tools that run the caller's statement
StatementTools == {"query_database", "query_database_md", "query_database_jsonl"}

\* The format each of them encodes in
EncodingOf(i) ==
    CASE tool[i] = "query_database_md" -> "md"
      [] tool[i] = "query_database_jsonl" -> "jsonl"
      [] OTHER -> IF "format" \in DOMAIN args[i] THEN args[i]["format"].s ELSE "json"

RaisesIn(i) ==
    /\ pc[i] \in {"connect", "main"}
    /\ last'[i] # last[i] \/ pc'[i] # pc[i] \/ calls'[i] # calls[i]
    /\ last'[i].raise

\* The step adds to the call log of invocation i nothing, or one close of a
\* connection the driver has opened for it
AddsAtMostItsClose(i) ==
    \/ calls'[i] = calls[i]
    \/ /\ calls'[i] = Append(calls[i], Call("close", connection[i], <<>>))
       /\ connection[i] \in opened
       /\ Count(calls[i], "close") = 0

\* C23: no error is retried.  The step in which connect or a non-probe
\* metadata or query call raises issues no call but the close of the opened
\* connection (none after a failed connect) and leaves the handler at its
\* close or at its return; from there on the invocation issues no call at
\* all and is never started again.
C23_NoRetry ==
    [][\A i \in Invocations :
        /\ RaisesIn(i) => (AddsAtMostItsClose(i) /\ pc'[i] \in {"close", "done"})
        /\ (RaisesIn(i) /\ pc[i] = "connect") => (calls'[i] = calls[i] /\ pc'[i] = "done")
        /\ pc[i] \in {"close", "done"} =>
            (calls'[i] = calls[i] /\ pc'[i] \in {"close", "done"})
        /\ pc[i] = "done" => pc'[i] = "done"]_vars

\* The query of query_database raised: the log is connect, query, close and
\* the handler has returned its error envelope.
C23_Witness ==
    \E i \in Invocations :
        /\ tool[i] = "query_database"
        /\ pc[i] = "done"
        /\ IsError(outcome[i].value)
        /\ [k \in DOMAIN calls[i] |-> calls[i][k].op] = <<"connect", "query", "close">>


\* Invocation i has returned an envelope and, if it opened a connection, has
\* issued the close call on it
Completed(i) ==
    /\ pc[i] = "done"
    /\ outcome[i] # None
    /\ ~outcome[i].throw
    /\ outcome[i].value.content[1].type = "text"
    /\ connection[i] # Undefined =>
        \E k \in DOMAIN calls[i] : calls[i][k] = Call("close", connection[i], <<>>)

\* C24: when every driver call eventually returns or raises, every
\* dispatched invocation eventually returns its envelope, and its
\* connection, if opened, has by then received its close call, however the
\* invocations in flight interleave.
C24_RunsToCompletion ==
    \A i \in Invocations : (pc[i] # "idle") ~> Completed(i)

\* Two invocations in flight together have both completed, one after a failed
\* connect, the other after closing its connection.
C24_Witness ==
    /\ Completed(1) /\ Completed(2)
    /\ connection[1] # Undefined
    /\ connection[2] = Undefined
    /\ tool[1] = "filter_table_names"


\* The argument invocation i was sent under a name, else a default
OwnOr(i, name, default) == IF name \in DOMAIN args[i] THEN args[i][name].s ELSE default

\* What invocation i passes to the driver comes from its own arguments and
\* the defaults of startup: the connection string, and for
\* filter_table_names the schema pattern ('%' when it sent no schema)
NothingInherited(i) ==
    /\ Len(calls[i]) >= 1 =>
        calls[i][1].args =
            <<Str("DSN=" \o OwnOr(i, "dsn", ODBC_DSN) \o ";UID=" \o OwnOr(i, "user", ODBC_USER)
                  \o ";PWD=" \o OwnOr(i, "password", ODBC_PASSWORD))>>
    /\ (tool[i] = "filter_table_names" /\ Len(calls[i]) >= 3) =>
        \E slot \in 1..2 : calls[i][3].args[slot] = Str(OwnOr(i, "schema", "%"))

\* C25: no invocation, successful or failed, changes process-wide state: the
\* registered tools and their shapes stay those of the server.tool calls of
\* startup, the defaults ODBC_DSN, ODBC_USER, ODBC_PASSWORD and API_KEY keep
\* their values, and what an invocation passes to the driver is not affected
\* by the overrides or the schema of invocations before or beside it.
C25_ProcessStateUntouched ==
    /\ [](registeredTools = Registrations)
    /\ [][/\ registeredTools' = registeredTools
          /\ myEnv' = myEnv
          /\ ODBC_DSN' = ODBC_DSN /\ ODBC_USER' = ODBC_USER
          /\ ODBC_PASSWORD' = ODBC_PASSWORD /\ API_KEY' = API_KEY]_vars
    /\ [](\A i \in Invocations : NothingInherited(i))

\* After an invocation of filter_table_names with its own dsn and schema has
\* returned, a later one without either has connected with the default dsn
\* and asked for the schema pattern '%'.
C25_Witness ==
    /\ pc[1] = "done" /\ pc[2] = "done"
    /\ tool[1] = "filter_table_names" /\ tool[2] = "filter_table_names"
    /\ {"dsn", "schema"} \subseteq DOMAIN args[1]
    /\ DOMAIN args[2] = {"q"}
    /\ Len(calls[1]) = 4 /\ Len(calls[2]) = 4
    /\ calls[1][1].args = <<Str("DSN=Call DSN;UID=demo;PWD=demo")>>
    /\ calls[2][1].args = <<Str("DSN=Local Virtuoso;UID=demo;PWD=demo")>>
    /\ calls[2][3].args[2] = Str("%")


\* Invocation i holds a connection the driver opened for it
HoldsConnection(i) == connection[i] # Undefined /\ connection[i] \in opened

\* In this step the caller of invocation i gets its envelope
Delivers(i) == outcome[i] = None /\ outcome'[i] # None

\* In this step the close call of invocation i, issued before on its own
\* connection as the last call of its log, returns or raises
CloseSettlesIn(i) ==
    /\ pc[i] = "close"
    /\ calls[i][Len(calls[i])] = Call("close", connection[i], <<>>)
    /\ calls'[i] = calls[i]
    /\ last'[i] \in {Settled, Raise(CloseError)}
    /\ pc'[i] = "done"

\* C26: an invocation that opened a connection delivers its envelope only in
\* the step in which its close call, already issued, settles; while the
\* close is not yet issued or is pending, the caller has nothing.
C26_EnvelopeAfterClose ==
    /\ [](\A i \in Invocations :
            (HoldsConnection(i) /\ pc[i] # "done") => outcome[i] = None)
    /\ [][\A i \in Invocations :
            (HoldsConnection(i) /\ Delivers(i)) => CloseSettlesIn(i)]_vars

\* get_schemas has delivered its success envelope after its close call raised.
C26_Witness ==
    \E i \in Invocations :
        /\ tool[i] = "get_schemas"
        /\ HoldsConnection(i)
        /\ pc[i] = "done"
        /\ last[i] = Raise(CloseError)
        /\ outcome[i] # None
        /\ ~IsError(outcome[i].value)
        /\ calls[i][Len(calls[i])].op = "close"


\* Some value of some row is a BigInt, which JSON.stringify refuses
HasBigInt(rows) ==
    \E j \in DOMAIN rows : \E k \in DOMAIN rows[j].props : rows[j].props[k].v.t = "bigint"

\* Building the result text of invocation i from the rows of its main call
\* raises: no first row to take the result of, a TABLE_NAME that is not a
\* string to search in, or a BigInt to serialise as json or jsonl
TextRaises(i, rows) ==
    CASE tool[i] \in ResultFieldTools -> Len(rows) = 0
      [] tool[i] = "filter_table_names" ->
            \/ ~TablesNamed(rows)
            \/ FormatAsked(i) # "md" /\ HasBigInt(rows)
      [] tool[i] = "get_schemas" -> FALSE
      [] OTHER -> FormatAsked(i) # "md" /\ HasBigInt(rows)

\* The text of an envelope was built by the catch clause
BuiltByCatch(env) ==
    LET text == env.content[1].text
    IN  text.t = "string" /\ Len(text.s) >= 7 /\ SubSeq(text.s, 1, 7) = "Error: "

\* In this step the handler of invocation i resumes from the await at
AwaitEnds(i, at) == pc[i] = at /\ pc'[i] # at

\* C27: the envelope of an invocation has isError = true exactly when
\* odbc.connect raised, or the main metadata or query call raised, or the
\* construction of the result text raised.  The settlement of the probe,
\* raised or not, builds no envelope, and the settlement of close, raised or
\* not, delivers the envelope that was built before it; an envelope without
\* isError never carries a text of the catch clause.
C27_IsErrorIffRaised ==
    /\ [][\A i \in Invocations :
            /\ AwaitEnds(i, "connect") =>
                /\ last'[i].raise <=> completion'[i] # None
                /\ last'[i].raise => (IsError(completion'[i].value) /\ outcome'[i] = completion'[i])
            /\ AwaitEnds(i, "probe") => (completion'[i] = None /\ outcome'[i] = None)
            /\ AwaitEnds(i, "main") =>
                (IsError(completion'[i].value)
                    <=> (last'[i].raise \/ TextRaises(i, last'[i].rows)))
            /\ AwaitEnds(i, "close") => outcome'[i] = completion[i]]_vars
    /\ [](\A i \in Invocations :
            completion[i] # None =>
                /\ ~completion[i].throw
                /\ IsError(completion[i].value) <=> BuiltByCatch(completion[i].value))

\* get_tables has delivered a success envelope although its close call raised.
C27_Witness ==
    \E i \in Invocations :
        /\ tool[i] = "get_tables"
        /\ pc[i] = "done"
        /\ last[i] = Raise(CloseError)
        /\ outcome[i] = completion[i]
        /\ ~IsError(outcome[i].value)
        /\ ~BuiltByCatch(outcome[i].value)


\* Invocation i of a tool that takes a format was sent one that is neither
\* "jsonl" nor "md"
OtherFormat(i) ==
    /\ tool[i] \in FormattingTools \ {"query_database_md", "query_database_jsonl"}
    /\ "format" \in DOMAIN args[i]
    /\ args[i]["format"].t = "string"
    /\ args[i]["format"].s \notin {"jsonl", "md"}

\* C28: a format argument that is not exactly "jsonl" or "md" (another name,
\* another letter case, the empty string) is not refused: the handler runs,
\* and what it returns for the rows of its main call is what it returns for
\* format = "json"; for records and for the empty set that is a success
\* envelope with the pretty-printed JSON array.
C28_OtherFormatIsJson ==
    \A i \in Invocations :
        (OtherFormat(i) /\ pc[i] # "idle") =>
            /\ pc[i] # "rejected"
            /\ (pc[i] = "close" /\ ~last[i].raise) =>
                /\ completion[i] =
                    TryCatch(tool[i], [args[i] EXCEPT !["format"] = Str("json")],
                             has_catalogs[i] = Bool(TRUE), last[i])
                /\ (FormatsRecords(i) \/ FormatsEmptySet(i)) =>
                    completion[i] =
                        Normal(SuccessEnvelope(Str(Stringify(Arr(FormattedSet(i)), 2, 0))))

\* get_tables, sent format "MD", has returned its two rows as a JSON array,
\* not as a Markdown table.
C28_Witness ==
    \E i \in Invocations :
        /\ tool[i] = "get_tables"
        /\ OtherFormat(i)
        /\ args[i]["format"] = Str("MD")
        /\ FormatsRecords(i)
        /\ Len(last[i].rows) = 2
        /\ ~IsError(completion[i].value)
        /\ SubSeq(completion[i].value.content[1].text.s, 1, 4) = "[\n  "


\* The stored-function query of invocation i has returned no row and the
\* handler awaits its close
NoResultRow(i) ==
    /\ tool[i] \in ResultFieldTools
    /\ pc[i] = "close"
    /\ ~last[i].raise
    /\ Len(last[i].rows) = 0

\* C29: when the stored-function query of spasql_query, virtuoso_support_ai
\* or chat_prompt_complete returns zero rows, the handler builds an error
\* envelope (isError = true, the text of the catch clause), not a success
\* envelope; it has issued exactly one close call, on its connection, and
\* when that call settles the error envelope is what the caller gets, with
\* no further call.
C29_NoRowIsAnError ==
    /\ [](\A i \in Invocations :
            NoResultRow(i) =>
                /\ IsError(completion[i].value)
                /\ BuiltByCatch(completion[i].value)
                /\ Count(calls[i], "close") = 1
                /\ calls[i][Len(calls[i])] = Call("close", connection[i], <<>>)
                /\ outcome[i] = None)
    /\ [][\A i \in Invocations :
            (NoResultRow(i) /\ pc'[i] # pc[i]) =>
                /\ pc'[i] = "done"
                /\ outcome'[i] = completion[i]
                /\ calls'[i] = calls[i]]_vars

\* virtuoso_support_ai got no row from its stored function and has built the
\* error envelope of a TypeError.
C29_Witness ==
    \E i \in Invocations :
        /\ tool[i] = "virtuoso_support_ai"
        /\ NoResultRow(i)
        /\ completion[i].value = ErrorEnvelope(TypeError("Cannot read properties of undefined (reading 'result')"))
        /\ completion[i].value.content[1].text = Str("Error: {}")


\* The tables call of filter_table_names invocation i has returned
Listed(i) == tool[i] = "filter_table_names" /\ pc[i] = "close" /\ ~last[i].raise

\* C30: filter_table_names is all-or-nothing.  When a row of the listing has
\* a null or missing TABLE_NAME, the handler builds the error envelope of the
\* TypeError, whose text "Error: {}" holds none of the rows, whatever rows
\* matched before that row; when every row is named it builds a success
\* envelope with all the matching rows, in its format.  Either way it has
\* issued one close call on its connection, and issues no other.
C30_FilterAllOrNothing ==
    \A i \in Invocations :
        /\ Listed(i) =>
            /\ ~TablesNamed(last[i].rows) =>
                /\ IsError(completion[i].value)
                /\ completion[i].value.content[1].text = Str("Error: {}")
            /\ TablesNamed(last[i].rows) =>
                completion[i] =
                    Normal(SuccessEnvelope(
                        FormatRows(Retained(last[i].rows, args[i]["q"].s), FormatAsked(i)).value))
        /\ (tool[i] = "filter_table_names" /\ pc[i] \in {"close", "done"} /\ HoldsConnection(i)) =>
            /\ Count(calls[i], "close") = 1
            /\ calls[i][Len(calls[i])] = Call("close", connection[i], <<>>)

\* The listing held a matching row and then a row with a null TABLE_NAME:
\* the envelope is the error and names no table.
C30_Witness ==
    \E i \in Invocations :
        /\ Listed(i)
        /\ args[i]["q"] = Str("Custom")
        /\ Len(last[i].rows) = 2
        /\ Get(last[i].rows[1], "TABLE_NAME") = Str("Customers")
        /\ Get(last[i].rows[2], "TABLE_NAME") = Null
        /\ IsError(completion[i].value)
        /\ ~Contains(completion[i].value.content[1].text.s, "Customers")
        /\ Count(calls[i], "close") = 1

====
